---- MODULE Spec2Model ----
(***************************************************************************)
(* The Total Reputation Set engine of the explorer (src/engine/trs.py):    *)
(* the engine's fields, the tables of the external store it writes, and    *)
(* one action per public operation.  Python dicts are functions whose      *)
(* DOMAIN is the key set; Counters are total functions over Identities     *)
(* (count 0 = key absent); dict iteration follows IdOrder.                 *)
(***************************************************************************)
EXTENDS Integers, Sequences, FiniteSets

\* ------------------------------------------------------------ bounds
Identities == {"A", "B"}
IdOrder == <<"A", "B">>
MaxEpoch == 4
MaxCalls == 3
MaxReputation == 10
EligibilityNames == {"A", "B", "C"}
SharedCalls == 2
\* the indexer: hashes per kind of item, data requests, epochs, calls made
HashesPerKind == 1
DataRequestHashes == 2
IndexerEpochs == {1, 2}
MaxIndexerCalls == 4
\* the balance list: configured retries, calls of the node, balances in half WITs
MaxRetries == 3
MaxNodeCalls == 6
HalfWits == {1, 2, 5}
\* the report: addresses of commits and reveals, epochs of the reveals
ReportAddresses == {"a", "b"}
ReportEpochs == {2, 3}
\* DataRequestReport.start_time and epoch_period, taken from the consensus constants
start_time == 1000
epoch_period == 45

\* --------------------------------------------------------- constants
reputation_issuance_stop == 1048576
reputation_expiration == 20000
\* penalization_factor = 0.5 = 1 / PenalizationDivisor
PenalizationDivisor == 2

VARIABLES
    logger,                        \* TRUE iff self.logger was set by __init__
    witnessing_acts,
    leftover_reputation,
    reputation_expiry,             \* sequence of [threshold, amounts]
    epoch,
    identities,
    insert_reputation_differences, \* the delta buffer
    address_ids,                   \* [set, map]: set = FALSE while the attribute is missing
    db_addresses,                  \* table addresses: the id of an address is its position
    db_reputation,                 \* table reputation: the sequence of flushed batches
    db_trs,                        \* table trs: the rows in insertion order
    issued_total,                  \* sum of what issue_reputation has returned so far
    calls,                         \* number of update calls the caller has made
    outcome,                       \* how the last update call ended
    last,                          \* the local variables of the last update call
    ids_to_addresses,              \* the id-to-address cache
    got,                           \* how the last get_trs call ended and what it returned
    trs_file,                      \* the snapshot file: absent, or the JSON text written
    shadow,                        \* the engine as it was when the process crashed
    replay,                        \* the updates made since the snapshot file was written
    balance_list,                  \* the balance list process sharing the address table
    calculation,                   \* a call of calculate_eligibilities: argument and result
    witnet_database,               \* the block indexer's WitnetDatabase and its store
    build,                         \* a run of BalanceList.build
    report                         \* a DataRequestReport: commits, reveals

vars == <<logger, witnessing_acts, leftover_reputation, reputation_expiry, epoch,
          identities, insert_reputation_differences, address_ids, db_addresses,
          db_reputation, db_trs, issued_total, calls, outcome, last,
          ids_to_addresses, got, trs_file, shadow, replay, balance_list, calculation,
          witnet_database, build, report>>

\* the state of the other components, which no method of the engine touches
side == <<balance_list, calculation, witnet_database, build, report>>

\* the indexer, the balance list build and the report
others == <<witnet_database, build, report>>

\* the engine, its store and its callers
engine == <<logger, witnessing_acts, leftover_reputation, reputation_expiry, epoch,
            identities, insert_reputation_differences, address_ids, db_addresses,
            db_reputation, db_trs, issued_total, calls, outcome, last,
            ids_to_addresses, got, trs_file, shadow, replay>>

\* ------------------------------------------------------ dict helpers
EmptyDict == [i \in {} |-> 0]

Get(d, i) == IF i \in DOMAIN d THEN d[i] ELSE 0

Put(d, i, v) == [j \in (DOMAIN d) \cup {i} |-> IF j = i THEN v ELSE d[j]]

Remove(d, i) == [j \in (DOMAIN d) \ {i} |-> d[j]]

Keys(d) == SelectSeq(IdOrder, LAMBDA i : i \in DOMAIN d)

RECURSIVE SumSeq(_)
SumSeq(s) == IF s = <<>> THEN 0 ELSE Head(s) + SumSeq(Tail(s))

SumDict(d) == SumSeq([n \in 1..Len(Keys(d)) |-> d[Keys(d)[n]]])

Cnt(a, b) == [i \in Identities |-> IF i = "A" THEN a ELSE b]

RECURSIVE Pow(_, _)
Pow(b, k) == IF k = 0 THEN 1 ELSE b * Pow(b, k - 1)

\* mutant: the record holds the amount without its sign
DeltaUnsigned(address, ep, reputation, type) ==
    [address |-> address, epoch |-> ep,
     reputation |-> IF reputation < 0 THEN 0 - reputation ELSE reputation, type |-> type]

Delta(address, ep, reputation, type) ==
    [address |-> address, epoch |-> ep, reputation |-> reputation, type |-> type]

\* ------------------------------------------------- pure engine steps
\* Counter.most_common(): keys by count descending, ties in insertion order
RECURSIVE MostCommonFrom(_, _)
MostCommonFrom(counter, keys) ==
    IF keys = <<>> THEN <<>>
    ELSE LET top == CHOOSE n \in 1..Len(keys) :
                        /\ \A k \in 1..Len(keys) : counter[keys[k]] <= counter[keys[n]]
                        /\ \A k \in 1..(n - 1) : counter[keys[k]] < counter[keys[n]]
         IN <<keys[top]>> \o
            MostCommonFrom(counter, SelectSeq(keys, LAMBDA i : i # keys[top]))

most_common(counter) ==
    MostCommonFrom(counter, SelectSeq(IdOrder, LAMBDA i : counter[i] > 0))

\* mutant: an identity with as many errors as honest reveals is not honest
filter_honest_identities_strict(honests, errors, liars) ==
    {i \in Identities : honests[i] > 0 /\ liars[i] = 0 /\ honests[i] > errors[i]}

filter_honest_identities(honests, errors, liars) ==
    {i \in Identities : honests[i] > 0 /\ liars[i] = 0 /\ honests[i] >= errors[i]}

\* mutant: the issuance is not capped at reputation_issuance_stop
issue_reputation_uncapped(acts, new_witnessing_acts) ==
    IF acts >= reputation_issuance_stop THEN 0 ELSE new_witnessing_acts

issue_reputation(acts, new_witnessing_acts) ==
    IF acts >= reputation_issuance_stop
    THEN 0
    ELSE LET sum == acts + new_witnessing_acts
             new == IF reputation_issuance_stop < sum THEN reputation_issuance_stop ELSE sum
         IN new - acts

\* the inner loop of expire_reputation over the entries of one packet; x carries
\* identities, insert_reputation_differences, expired and error
RECURSIVE ExpireEntries(_, _, _, _)
ExpireEntries(x, amounts, keys, ep) ==
    IF keys = <<>> THEN x
    ELSE LET i == Head(keys)
             reputation == amounts[i]
         IN IF i \notin DOMAIN x.identities
            THEN [x EXCEPT !.expired = @ + reputation, !.error = "KeyError"]
            ELSE LET v == x.identities[i] - reputation
                     x1 == [x EXCEPT !.expired = @ + reputation, !.identities[i] = v]
                 IN IF v < 0
                    THEN [x1 EXCEPT !.error = "AssertionError"]
                    ELSE ExpireEntries(
                             [x1 EXCEPT !.insert_reputation_differences =
                                            Append(@, Delta(i, ep, 0 - reputation, "expire"))],
                             amounts, Tail(keys), ep)

\* the while loop of expire_reputation: counter stays 0, the front packet is
\* drained while its threshold is <= witnessing_acts
RECURSIVE ExpireLoop(_, _, _)
ExpireLoop(x, acts, ep) ==
    IF x.reputation_expiry = <<>> THEN x
    ELSE IF Head(x.reputation_expiry).threshold > acts THEN x
    ELSE LET packet == Head(x.reputation_expiry)
             x1 == ExpireEntries(x, packet.amounts, Keys(packet.amounts), ep)
         IN IF x1.error # "none" THEN x1
            ELSE ExpireLoop([x1 EXCEPT !.reputation_expiry = Tail(@)], acts, ep)

expire_reputation(ids, queue, buffer, acts, ep) ==
    ExpireLoop([identities |-> ids, reputation_expiry |-> queue,
                insert_reputation_differences |-> buffer,
                expired |-> 0, error |-> "none"], acts, ep)

\* mutant: the loop takes the penalty from the oldest packets first
RECURSIVE ExpirePacketsForwards(_, _, _, _)
ExpirePacketsForwards(queue, n, liar, reputation_to_expire) ==
    IF n = 0
    THEN [reputation_expiry |-> queue, reputation_to_expire |-> reputation_to_expire]
    ELSE LET k == Len(queue) - n + 1
         IN IF liar \notin DOMAIN queue[k].amounts
            THEN ExpirePacketsForwards(queue, n - 1, liar, reputation_to_expire)
            ELSE IF queue[k].amounts[liar] <= reputation_to_expire
            THEN IF queue[k].amounts[liar] = reputation_to_expire
                 THEN [reputation_expiry |-> [queue EXCEPT ![k].amounts = Remove(@, liar)],
                       reputation_to_expire |-> 0]
                 ELSE ExpirePacketsForwards([queue EXCEPT ![k].amounts = Remove(@, liar)],
                                            n - 1, liar,
                                            reputation_to_expire - queue[k].amounts[liar])
            ELSE [reputation_expiry |->
                      [queue EXCEPT ![k].amounts[liar] = @ - reputation_to_expire],
                  reputation_to_expire |-> 0]

\* the loop over reversed(self.reputation_expiry) for one liar, from packet n down
RECURSIVE ExpirePacketsBackwards(_, _, _, _)
ExpirePacketsBackwards(queue, n, liar, reputation_to_expire) ==
    IF n = 0
    THEN [reputation_expiry |-> queue, reputation_to_expire |-> reputation_to_expire]
    ELSE IF liar \notin DOMAIN queue[n].amounts
    THEN ExpirePacketsBackwards(queue, n - 1, liar, reputation_to_expire)
    ELSE LET amount == queue[n].amounts[liar]
         IN IF amount <= reputation_to_expire
            THEN LET q1 == [queue EXCEPT ![n].amounts = Remove(@, liar)]
                     r1 == reputation_to_expire - amount
                 IN IF r1 = 0
                    THEN [reputation_expiry |-> q1, reputation_to_expire |-> 0]
                    ELSE ExpirePacketsBackwards(q1, n - 1, liar, r1)
            ELSE [reputation_expiry |->
                      [queue EXCEPT ![n].amounts[liar] = amount - reputation_to_expire],
                  reputation_to_expire |-> 0]

\* mutant: a liar in the map without reputation makes the assertion fail
PenalizeOneAbortsOnZero(x, liar, lies, ep) ==
    IF liar \notin DOMAIN x.identities THEN x
    ELSE LET current == x.identities[liar]
             reputation_after_lies == current \div Pow(PenalizationDivisor, lies)
             penalized_reputation == current - reputation_after_lies
             r == ExpirePacketsBackwards(x.reputation_expiry, Len(x.reputation_expiry),
                                         liar, penalized_reputation)
             x1 == [x EXCEPT !.reputation_expiry = r.reputation_expiry]
         IN IF r.reputation_to_expire # 0 \/ current = 0
            THEN [x1 EXCEPT !.error = "AssertionError"]
            ELSE [x1 EXCEPT !.penalized = @ + penalized_reputation,
                            !.identities[liar] = reputation_after_lies,
                            !.insert_reputation_differences =
                                Append(@, Delta(liar, ep, 0 - penalized_reputation, "lie"))]

\* mutant: a liar is halved once, whatever the number of its lies
PenalizeOneSingleLie(x, liar, lies, ep) ==
    IF liar \notin DOMAIN x.identities THEN x
    ELSE LET current == x.identities[liar]
             reputation_after_lies == current \div PenalizationDivisor
             penalized_reputation == current - reputation_after_lies
             r == ExpirePacketsBackwards(x.reputation_expiry, Len(x.reputation_expiry),
                                         liar, penalized_reputation)
             x1 == [x EXCEPT !.reputation_expiry = r.reputation_expiry]
         IN IF r.reputation_to_expire # 0
            THEN [x1 EXCEPT !.error = "AssertionError"]
            ELSE [x1 EXCEPT !.penalized = @ + penalized_reputation,
                            !.identities[liar] = reputation_after_lies,
                            !.insert_reputation_differences =
                                Append(@, Delta(liar, ep, 0 - penalized_reputation, "lie"))]

\* mutant: the penalty is taken from the identity map but not from the packets
PenalizeOneKeepsPackets(x, liar, lies, ep) ==
    IF liar \notin DOMAIN x.identities THEN x
    ELSE LET current == x.identities[liar]
             reputation_after_lies == current \div Pow(PenalizationDivisor, lies)
             penalized_reputation == current - reputation_after_lies
         IN [x EXCEPT !.penalized = @ + penalized_reputation,
                      !.identities[liar] = reputation_after_lies,
                      !.insert_reputation_differences =
                          Append(@, Delta(liar, ep, 0 - penalized_reputation, "lie"))]

\* mutant: a liar that is not in the map is entered at 0 with a lie record
PenalizeOneEntersAbsent(x, liar, lies, ep) ==
    LET current == Get(x.identities, liar)
        reputation_after_lies == current \div Pow(PenalizationDivisor, lies)
        penalized_reputation == current - reputation_after_lies
        r == ExpirePacketsBackwards(x.reputation_expiry, Len(x.reputation_expiry),
                                    liar, penalized_reputation)
        x1 == [x EXCEPT !.reputation_expiry = r.reputation_expiry]
    IN IF r.reputation_to_expire # 0
       THEN [x1 EXCEPT !.error = "AssertionError"]
       ELSE [x1 EXCEPT !.penalized = @ + penalized_reputation,
                       !.identities = Put(@, liar, reputation_after_lies),
                       !.insert_reputation_differences =
                           Append(@, Delta(liar, ep, 0 - penalized_reputation, "lie"))]

\* the body of the loop of penalize_liars for one liar
PenalizeOne(x, liar, lies, ep) ==
    IF liar \notin DOMAIN x.identities THEN x
    ELSE LET current == x.identities[liar]
             reputation_after_lies == current \div Pow(PenalizationDivisor, lies)
             penalized_reputation == current - reputation_after_lies
             r == ExpirePacketsBackwards(x.reputation_expiry, Len(x.reputation_expiry),
                                         liar, penalized_reputation)
             x1 == [x EXCEPT !.reputation_expiry = r.reputation_expiry]
         IN IF r.reputation_to_expire # 0
            THEN [x1 EXCEPT !.error = "AssertionError"]
            ELSE [x1 EXCEPT !.penalized = @ + penalized_reputation,
                            !.identities[liar] = reputation_after_lies,
                            !.insert_reputation_differences =
                                Append(@, Delta(liar, ep, 0 - penalized_reputation, "lie"))]

RECURSIVE PenalizeLoop(_, _, _, _)
PenalizeLoop(x, liars, order, ep) ==
    IF order = <<>> \/ x.error # "none" THEN x
    ELSE PenalizeLoop(PenalizeOne(x, Head(order), liars[Head(order)], ep),
                      liars, Tail(order), ep)

penalize_liars(ids, queue, buffer, liar_identities, ep) ==
    PenalizeLoop([identities |-> ids, reputation_expiry |-> queue,
                  insert_reputation_differences |-> buffer,
                  penalized |-> 0, error |-> "none"],
                 liar_identities, most_common(liar_identities), ep)

\* mutant: only identities already in the map are credited
RECURSIVE DistributeLoopKnownOnly(_, _, _, _)
DistributeLoopKnownOnly(x, order, reputation_to_distribute, ep) ==
    IF order = <<>> THEN x
    ELSE LET i == Head(order)
         IN DistributeLoopKnownOnly(
                IF i \notin DOMAIN x.identities THEN x
                ELSE [x EXCEPT !.identities = Put(@, i, Get(@, i) + reputation_to_distribute),
                               !.insert_reputation_differences =
                                   Append(@, Delta(i, ep, reputation_to_distribute, "gain")),
                               !.earning = Append(@, i)],
                Tail(order), reputation_to_distribute, ep)

RECURSIVE DistributeLoop(_, _, _, _)
DistributeLoop(x, order, reputation_to_distribute, ep) ==
    IF order = <<>> THEN x
    ELSE LET i == Head(order)
         IN DistributeLoop(
                [x EXCEPT !.identities = Put(@, i, Get(@, i) + reputation_to_distribute),
                          !.insert_reputation_differences =
                              Append(@, Delta(i, ep, reputation_to_distribute, "gain")),
                          !.earning = Append(@, i)],
                Tail(order), reputation_to_distribute, ep)

distribute_reputation(ids, buffer, total_reputation, honest_identities, ep) ==
    LET n == Cardinality(honest_identities)
        reputation_to_distribute == total_reputation \div (IF n = 0 THEN 1 ELSE n)
        x0 == [identities |-> ids, insert_reputation_differences |-> buffer,
               earning |-> <<>>, distributed |-> 0,
               reputation_to_distribute |-> reputation_to_distribute]
    IN IF reputation_to_distribute = 0 THEN x0
       ELSE LET x == DistributeLoop(x0, SelectSeq(IdOrder, LAMBDA i : i \in honest_identities),
                                    reputation_to_distribute, ep)
            IN [x EXCEPT !.distributed = reputation_to_distribute * Len(x.earning)]

\* mutant: clean keeps the identities at 0
clean_keeps_zero(ids) == ids
\* mutant: clean takes one unit from every identity it keeps
clean_decrements(ids) == [i \in {j \in DOMAIN ids : ids[j] > 0} |-> ids[i] - 1]

clean(ids) == [i \in {j \in DOMAIN ids : ids[j] > 0} |-> ids[i]]

\* ----------------------------------------------- the external store
\* get_addresses_to_ids: the address table read into the engine's cache
AddressTable(table) ==
    [set |-> TRUE,
     map |-> [a \in {table[n] : n \in 1..Len(table)} |->
                  CHOOSE n \in 1..Len(table) : table[n] = a]]

\* get_ids_to_addresses: the address table as a map from id to address
IdTable(table) == [n \in 1..Len(table) |-> table[n]]

\* get_trs, lines 184-202: the epoch of the row the search finds, from e downwards
\* and not below 1 (0: no row)
RECURSIVE TrsEpoch(_)
TrsEpoch(e) ==
    IF \E n \in 1..Len(db_trs) : db_trs[n].epoch = e THEN e
    ELSE IF e - 1 <= 0 THEN 0
    ELSE TrsEpoch(e - 1)

NothingRead == [outcome |-> "none", epoch |-> 0, trs |-> <<>>, total_reputation |-> 0]

\* get_trs, line 210: an id of the row is missing from the id-to-address cache
CacheMiss(row) ==
    \E n \in 1..Len(row.addresses) : row.addresses[n] \notin DOMAIN ids_to_addresses

\* calculate_trapezoid_triangle, line 447: the slope divides by the number of
\* identities minus 1
TriangleError(n) == IF n = 1 THEN "ZeroDivisionError" ELSE "none"

\* ------------------------------------------- double-precision arithmetic
\* The eligibility functions compute in Python floats (IEEE-754 doubles). A
\* non-negative double is written here as the natural number of units of
\* 2^-FracBits it holds, in limbs of LimbBits bits, least significant limb first;
\* every operation is the exact one followed by the rounding to Mantissa significant
\* bits, ties to even.
LimbBits == 15
Base == 32768
FracLimbs == 5
FracBits == 75
Mantissa == 53

Limb(a, j) == IF j \in 1..Len(a) THEN a[j] ELSE 0

\* bit n of a, bit 1 being the least significant
Bit(a, n) == (Limb(a, (n - 1) \div LimbBits + 1) \div Pow(2, (n - 1) % LimbBits)) % 2

\* the number of bits of the int x
RECURSIVE BitLength(_)
BitLength(x) == IF x = 0 THEN 0 ELSE 1 + BitLength(x \div 2)

\* the position of the most significant 1 of a, searched from limb j down (0: none)
RECURSIVE Top(_, _)
Top(a, j) ==
    IF j = 0 THEN 0
    ELSE IF a[j] # 0 THEN (j - 1) * LimbBits + BitLength(a[j])
    ELSE Top(a, j - 1)

RECURSIVE IntLimbs(_)
IntLimbs(x) == IF x = 0 THEN <<>> ELSE <<x % Base>> \o IntLimbs(x \div Base)

RECURSIVE ToInt(_)
ToInt(a) == IF a = <<>> THEN 0 ELSE Head(a) + Base * ToInt(Tail(a))

\* float(x) of an int
Float(x) == [j \in 1..FracLimbs |-> 0] \o IntLimbs(x)

\* 2^s units
PowerOfTwo(s) ==
    [j \in 1..(s \div LimbBits + 1) |->
        IF j = s \div LimbBits + 1 THEN Pow(2, s % LimbBits) ELSE 0]

\* a with its s least significant bits cleared
ClearLow(a, s) ==
    [j \in 1..Len(a) |->
        IF j * LimbBits <= s THEN 0
        ELSE IF (j - 1) * LimbBits >= s THEN a[j]
        ELSE (a[j] \div Pow(2, s - (j - 1) * LimbBits)) * Pow(2, s - (j - 1) * LimbBits)]

\* some of the s least significant bits of a is 1
LowNonZero(a, s) ==
    \E j \in 1..Len(a) :
        IF j * LimbBits <= s THEN a[j] # 0
        ELSE IF (j - 1) * LimbBits >= s THEN FALSE
        ELSE a[j] % Pow(2, s - (j - 1) * LimbBits) # 0

\* a / 2 for an even a
Half(a) == [j \in 1..Len(a) |-> a[j] \div 2 + (Limb(a, j + 1) % 2) * (Base \div 2)]

RECURSIVE AddFrom(_, _, _, _, _)
AddFrom(a, b, j, carry, acc) ==
    IF j > Len(a) /\ j > Len(b)
    THEN IF carry = 1 THEN Append(acc, 1) ELSE acc
    ELSE AddFrom(a, b, j + 1, (Limb(a, j) + Limb(b, j) + carry) \div Base,
                 Append(acc, (Limb(a, j) + Limb(b, j) + carry) % Base))

FAdd(a, b) == AddFrom(a, b, 1, 0, <<>>)

\* a - b for a >= b
RECURSIVE SubFrom(_, _, _, _, _)
SubFrom(a, b, j, borrow, acc) ==
    IF j > Len(a) /\ j > Len(b)
    THEN acc
    ELSE SubFrom(a, b, j + 1, IF Limb(a, j) - Limb(b, j) - borrow < 0 THEN 1 ELSE 0,
                 Append(acc, (Limb(a, j) - Limb(b, j) - borrow + Base) % Base))

FSub(a, b) == SubFrom(a, b, 1, 0, <<>>)

\* a * i for an int i < Base
RECURSIVE MulFrom(_, _, _, _, _)
MulFrom(a, i, j, carry, acc) ==
    IF j > Len(a) /\ carry = 0
    THEN acc
    ELSE MulFrom(a, i, j + 1, (Limb(a, j) * i + carry) \div Base,
                 Append(acc, (Limb(a, j) * i + carry) % Base))

FMul(a, i) == MulFrom(a, i, 1, 0, <<>>)

\* a / b for an int 0 < b < Base: the quotient truncated to units, and the remainder
RECURSIVE DivFrom(_, _, _, _, _)
DivFrom(a, b, j, r, acc) ==
    IF j = 0
    THEN [q |-> acc, r |-> r]
    ELSE DivFrom(a, b, j - 1, (r * Base + a[j]) % b,
                 <<(r * Base + a[j]) \div b>> \o acc)

FDiv(a, b) == DivFrom(a, b, Len(a), 0, <<>>)

RECURSIVE LessFrom(_, _, _)
LessFrom(a, b, j) ==
    IF j = 0 THEN FALSE
    ELSE IF Limb(a, j) # Limb(b, j) THEN Limb(a, j) < Limb(b, j)
    ELSE LessFrom(a, b, j - 1)

FLess(a, b) == LessFrom(a, b, IF Len(a) > Len(b) THEN Len(a) ELSE Len(b))

\* the double nearest to the exact value a (plus a fraction of a unit if inexact),
\* ties to even; t is the position of the most significant 1 of a
RoundAt(a, inexact, t) ==
    IF t <= Mantissa
    THEN a
    ELSE IF /\ Bit(a, t - Mantissa) = 1
            /\ \/ inexact
               \/ Bit(a, t - Mantissa + 1) = 1
               \/ LowNonZero(a, t - Mantissa - 1)
    THEN FAdd(ClearLow(a, t - Mantissa), PowerOfTwo(t - Mantissa))
    ELSE ClearLow(a, t - Mantissa)

Double(a, inexact) == RoundAt(a, inexact, Top(a, Len(a)))

\* mutant: round(res, 0) replaced by int(res)
Round0Truncates(res) ==
    IF Len(res) > FracLimbs THEN ToInt(SubSeq(res, FracLimbs + 1, Len(res))) ELSE 0

\* round(res, 0) of a double res >= 0: the nearest integer, ties to even
Round0(res) ==
    (IF Len(res) > FracLimbs THEN ToInt(SubSeq(res, FracLimbs + 1, Len(res))) ELSE 0)
    + (IF /\ Bit(res, FracBits) = 1
          /\ \/ Bit(res, FracBits + 1) = 1
             \/ LowNonZero(res, FracBits - 1)
       THEN 1 ELSE 0)

\* --------------------------------------------------- eligibility
\* magic_line, lines 433-438, for the slope -m: m * x + k, saturated at 0 and rounded;
\* p is the double m * x
MagicLineAt(p, k) == IF FLess(k, p) THEN 0 ELSE Round0(Double(FSub(k, p), FALSE))

magic_line(x, m, k) == MagicLineAt(Double(FMul(m, x), FALSE), k)

\* calculate_trapezoid_triangle, lines 448-454, for the slope -m
TriangleLoop(active_reputed_ids_len, m, k) ==
    [n \in 1..active_reputed_ids_len |-> magic_line(n - 1, m, k)]

\* line 447: m = -k / (active_reputed_ids_len - 1)
TriangleSlope(active_reputed_ids_len, k) ==
    TriangleLoop(active_reputed_ids_len,
                 Double(FDiv(k, active_reputed_ids_len - 1).q,
                        FDiv(k, active_reputed_ids_len - 1).r # 0), k)

\* line 445: k = 1.5 * (average - minimum_rep); the difference d is exact
TriangleIntercept(active_reputed_ids_len, d) ==
    TriangleSlope(active_reputed_ids_len,
                  Double(FAdd(d, Half(d)), FALSE))

\* line 444: average = total_active_rep / active_reputed_ids_len
TriangleAverage(active_reputed_ids_len, minimum_rep, average) ==
    TriangleIntercept(active_reputed_ids_len, FSub(average, Float(minimum_rep)))

\* calculate_trapezoid_triangle, lines 441-456: the triangle, or the error raised
calculate_trapezoid_triangle(total_active_rep, active_reputed_ids_len, minimum_rep) ==
    IF TriangleError(active_reputed_ids_len) # "none"
    THEN [error |-> TriangleError(active_reputed_ids_len), triangle_reputation |-> <<>>]
    ELSE [error |-> "none",
          triangle_reputation |->
              TriangleAverage(active_reputed_ids_len, minimum_rep,
                  Double(FDiv(Float(total_active_rep), active_reputed_ids_len).q,
                         FDiv(Float(total_active_rep), active_reputed_ids_len).r # 0))]

\* sorted(..., key = reputation, reverse = True): stable, ties keep the dict's order
RECURSIVE Sorted(_)
Sorted(items) ==
    IF items = <<>> THEN <<>>
    ELSE LET first == CHOOSE n \in 1..Len(items) :
                          /\ \A k \in 1..Len(items) : items[k][2] <= items[n][2]
                          /\ \A k \in 1..(n - 1) : items[k][2] < items[n][2]
         IN <<items[first]>>
            \o Sorted(SubSeq(items, 1, first - 1) \o SubSeq(items, first + 1, Len(items)))

\* mutant: the extra units go to the last ranks
TrapezoidExtraLast(active_reputed_ids, triangle_reputation, remaining_reputation) ==
    [n \in 1..Len(active_reputed_ids) |->
        triangle_reputation[n]
        + remaining_reputation \div Len(active_reputed_ids)
        + (IF Len(active_reputed_ids) - n < remaining_reputation % Len(active_reputed_ids)
           THEN 1 ELSE 0)]

\* trapezoidal_eligibility, lines 472-482: int(rep + offset_reputation (+ 1)), where
\* offset_reputation = remaining / len and ids_with_extra_rep = remaining % len
Trapezoid(active_reputed_ids, triangle_reputation, remaining_reputation) ==
    [n \in 1..Len(active_reputed_ids) |->
        triangle_reputation[n]
        + remaining_reputation \div Len(active_reputed_ids)
        + (IF n - 1 < remaining_reputation % Len(active_reputed_ids) THEN 1 ELSE 0)]

TrapezoidOf(active_reputed_ids, total_active_rep, t) ==
    IF t.error # "none"
    THEN [error |-> t.error, triangle |-> <<>>, eligibility |-> <<>>,
          ranked |-> active_reputed_ids, total_active_rep |-> total_active_rep]
    ELSE [error |-> "none", triangle |-> t.triangle_reputation,
          eligibility |-> Trapezoid(active_reputed_ids, t.triangle_reputation,
                                    total_active_rep - SumSeq(t.triangle_reputation)),
          ranked |-> active_reputed_ids, total_active_rep |-> total_active_rep]

\* trapezoidal_eligibility, lines 459-482, of the dict given as its items in order
TrapezoidRanked(active_reputed_ids, total_active_rep) ==
    IF active_reputed_ids = <<>>
    THEN [error |-> "none", triangle |-> <<>>, eligibility |-> <<>>,
          ranked |-> <<>>, total_active_rep |-> 0]
    ELSE TrapezoidOf(active_reputed_ids, total_active_rep,
             calculate_trapezoid_triangle(total_active_rep, Len(active_reputed_ids),
                 active_reputed_ids[Len(active_reputed_ids)][2]))

trapezoidal_eligibility(items) ==
    TrapezoidRanked(Sorted(items), SumSeq([n \in 1..Len(items) |-> items[n][2]]))

\* calculate_eligibilities, lines 485-492: for each identity the two operands of
\* (eligibility + 1) / (total_active_rep + len(identities))
Eligibilities(items, t) ==
    IF t.error # "none"
    THEN [identities |-> items, outcome |-> t.error, triangle |-> <<>>,
          ranked |-> t.ranked, weights |-> <<>>, eligibilities |-> <<>>]
    ELSE [identities |-> items, outcome |-> "returned", triangle |-> t.triangle,
          ranked |-> t.ranked, weights |-> t.eligibility,
          eligibilities |-> [n \in 1..Len(t.ranked) |->
                                <<t.eligibility[n] + 1, t.total_active_rep + Len(items)>>]]

calculate_eligibilities(items) == Eligibilities(items, trapezoidal_eligibility(items))

\* a call of calculate_eligibilities that has not run yet, on the dict given as its
\* items in insertion order
Asked(items) ==
    [identities |-> items, outcome |-> "none", triangle |-> <<>>, ranked |-> <<>>,
     weights |-> <<>>, eligibilities |-> <<>>]

\* get_trs, lines 204-227, for the row found: the refresh on a miss fills address_ids
\* (get_addresses_to_ids), the ids are then resolved through ids_to_addresses
get_trs(row, has_logger) ==
    IF CacheMiss(row) /\ ~has_logger
    THEN [NothingRead EXCEPT !.outcome = "AttributeError"]
    ELSE IF CacheMiss(row)
    THEN [NothingRead EXCEPT !.outcome = "KeyError"]
    ELSE LET keys == [n \in 1..Len(row.addresses) |-> ids_to_addresses[row.addresses[n]]]
             reputation == [a \in {keys[n] : n \in 1..Len(keys)} |->
                               row.reputations[CHOOSE n \in 1..Len(keys) :
                                   /\ keys[n] = a
                                   /\ \A k \in (n + 1)..Len(keys) : keys[k] # a]]
             order == MostCommonFrom(reputation, Keys(reputation))
         IN IF TriangleError(Len(order)) # "none"
            THEN [NothingRead EXCEPT !.outcome = TriangleError(Len(order))]
            ELSE [outcome |-> "returned",
                  epoch |-> row.epoch,
                  trs |-> [n \in 1..Len(order) |-> <<order[n], reputation[order[n]]>>],
                  total_reputation |-> SumDict(reputation)]

\* insert_addresses (trs.py 158-166, balance_list.py 131-137) is a plain INSERT of the
\* batch: on the table addresses(address PRIMARY KEY, id AUTO) the statement is
\* refused as a whole when one of its addresses is already a row of the table
Conflict(addresses_to_insert, table) ==
    \E n \in 1..Len(addresses_to_insert), k \in 1..Len(table) :
        addresses_to_insert[n] = table[k]

\* the balance list before its insert_addresses runs
Idle == [pc |-> "idle", addresses |-> <<>>, address_ids |-> EmptyDict, outcome |-> "none"]

\* transform_identities followed by the insert of the row keyed ep (insert_trs);
\* m is the whole machine as a record, row_fails says that the store refuses the row
insert_trs(m, ep, row_fails) ==
    LET keys == Keys(m.identities)
    IN IF keys # <<>> /\ ~m.address_ids.set
       THEN [m EXCEPT !.error = "AttributeError"]
       ELSE IF Conflict(SelectSeq(keys, LAMBDA a : a \notin DOMAIN m.address_ids.map),
                        m.db_addresses)
       THEN [m EXCEPT !.error = "UniqueViolation"]
       ELSE LET addresses_to_insert ==
                    SelectSeq(keys, LAMBDA a : a \notin DOMAIN m.address_ids.map)
                table == m.db_addresses \o addresses_to_insert
                cache == IF addresses_to_insert = <<>> THEN m.address_ids
                         ELSE AddressTable(table)
                row == [epoch |-> ep,
                        addresses |-> [n \in 1..Len(keys) |-> cache.map[keys[n]]],
                        reputations |-> [n \in 1..Len(keys) |-> m.identities[keys[n]]]]
                m1 == [m EXCEPT !.db_addresses = table, !.address_ids = cache]
            IN IF row_fails
               THEN [m1 EXCEPT !.error = "DatabaseError"]
               ELSE [m1 EXCEPT !.db_trs = Append(@, row)]

\* ------------------------------------------- the snapshot file
\* json.dump of a dict: the (key, value) pairs in the dict's order
DumpDict(d) == [n \in 1..Len(Keys(d)) |-> <<Keys(d)[n], d[Keys(d)[n]]>>]

\* json.load of an object: a dict, the last value of a repeated key wins
LoadDict(pairs) ==
    [a \in {pairs[n][1] : n \in 1..Len(pairs)} |->
        pairs[CHOOSE n \in 1..Len(pairs) :
                  /\ pairs[n][1] = a
                  /\ \A k \in (n + 1)..Len(pairs) : pairs[k][1] # a][2]]

NoFile == [exists |-> FALSE]

\* mutant: persist_trs leaves the packets without amounts out of the file
DumpTrsDropsEmptyPackets ==
    LET queue == SelectSeq(reputation_expiry, LAMBDA packet : packet.amounts # EmptyDict)
    IN [exists |-> TRUE,
        witnessing_acts |-> witnessing_acts,
        leftover_reputation |-> leftover_reputation,
        reputation_expiry |-> [n \in 1..Len(queue) |->
                                  <<queue[n].threshold, DumpDict(queue[n].amounts)>>],
        epoch |-> epoch,
        identities |-> DumpDict(identities)]

\* persist_trs, lines 76-84: the text written for the engine's five fields
DumpTrs ==
    [exists |-> TRUE,
     witnessing_acts |-> witnessing_acts,
     leftover_reputation |-> leftover_reputation,
     reputation_expiry |-> [n \in 1..Len(reputation_expiry) |->
                               <<reputation_expiry[n].threshold,
                                 DumpDict(reputation_expiry[n].amounts)>>],
     epoch |-> epoch,
     identities |-> DumpDict(identities)]

\* __init__ lines 21-47 and load_trs: the five fields of an engine constructed with
\* load_trs = True on the file f (all zero if the file does not exist)
LoadTrs(f) ==
    IF ~f.exists
    THEN [witnessing_acts |-> 0, leftover_reputation |-> 0, reputation_expiry |-> <<>>,
          epoch |-> 0, identities |-> EmptyDict]
    ELSE [witnessing_acts |-> f.witnessing_acts,
          leftover_reputation |-> f.leftover_reputation,
          reputation_expiry |-> [n \in 1..Len(f.reputation_expiry) |->
                                    [threshold |-> f.reputation_expiry[n][1],
                                     amounts |-> LoadDict(f.reputation_expiry[n][2])]],
          epoch |-> f.epoch,
          identities |-> LoadDict(f.identities)]

\* the five fields of the snapshot, of the running engine
Snapshot ==
    [witnessing_acts |-> witnessing_acts, leftover_reputation |-> leftover_reputation,
     reputation_expiry |-> reputation_expiry, epoch |-> epoch, identities |-> identities]

NoShadow == [crashed |-> FALSE]

\* ------------------------------------------------------- TRS.update
NoLocals ==
    [epoch |-> 0, stage |-> "start", phantom |-> FALSE,
     honests |-> Cnt(0, 0), errors |-> Cnt(0, 0), liars |-> Cnt(0, 0),
     revealing |-> Cnt(0, 0),
     honest_identities |-> {}, liar_identities |-> Cnt(0, 0),
     new_witnessing_acts |-> 0, expired_reputation |-> 0, issued_reputation |-> 0,
     penalized_reputation |-> 0, total_reputation |-> 0,
     reputation_to_distribute |-> 0, total_reputation_distributed |-> 0,
     reputation_earning_identities |-> <<>>]

Machine ==
    [witnessing_acts |-> witnessing_acts,
     leftover_reputation |-> leftover_reputation,
     reputation_expiry |-> reputation_expiry,
     epoch |-> epoch,
     identities |-> identities,
     insert_reputation_differences |-> insert_reputation_differences,
     address_ids |-> address_ids,
     db_addresses |-> db_addresses,
     db_reputation |-> db_reputation,
     db_trs |-> db_trs,
     issued_total |-> issued_total,
     error |-> "none",
     loc |-> NoLocals]

\* lines 363-369: the phantom cycle of a gap update (expire_reputation_in_next_epoch,
\* clean, insert_trs(next_epoch=True)); self.epoch is still the stored epoch
\* mutant: the phantom cycle does not clean the identity map
PhantomExpiredNoClean(m, x) ==
       [m EXCEPT !.identities = x.identities,
                 !.reputation_expiry = x.reputation_expiry,
                 !.insert_reputation_differences = x.insert_reputation_differences,
                 !.leftover_reputation = IF x.error = "none" THEN @ + x.expired ELSE @,
                 !.error = x.error]

\* mutant: the reputation expired by the phantom cycle is not carried over
PhantomExpiredLosesReputation(m, x) ==
       [m EXCEPT !.identities = IF x.error = "none" THEN clean(x.identities) ELSE x.identities,
                 !.reputation_expiry = x.reputation_expiry,
                 !.insert_reputation_differences = x.insert_reputation_differences,
                 !.error = x.error]

PhantomExpired(m, x) ==
       [m EXCEPT !.identities = IF x.error = "none" THEN clean(x.identities) ELSE x.identities,
                 !.reputation_expiry = x.reputation_expiry,
                 !.insert_reputation_differences = x.insert_reputation_differences,
                 !.leftover_reputation = IF x.error = "none" THEN @ + x.expired ELSE @,
                 !.error = x.error]

PhantomExpire(m) ==
    PhantomExpired(m, expire_reputation(m.identities, m.reputation_expiry,
                                        m.insert_reputation_differences,
                                        m.witnessing_acts, m.epoch + 1))

\* the stage an update has completed is recorded unless it raised
Completed(m, stage) ==
    IF m.error # "none" THEN m ELSE [m EXCEPT !.loc.stage = stage]

PhantomInsert(m, fault) ==
    IF m.error # "none" THEN m
    ELSE Completed(insert_trs([m EXCEPT !.loc.phantom = TRUE], m.epoch + 1,
                              fault = "phantom_trs"),
                   "phantom")

PhantomCycle(m, ep, has_logger, fault) ==
    IF ~(m.epoch # 0 /\ ep > m.epoch + 1) THEN m
    ELSE IF ~has_logger THEN [m EXCEPT !.error = "AttributeError"]
    ELSE PhantomInsert(PhantomExpire(m), fault)

\* lines 376-384: the stored epoch, the honest filter, the new witnessing acts
StageFilter(m, ep, honests, errors, liars, revealing, has_logger) ==
    IF m.error # "none" THEN m
    ELSE [m EXCEPT !.epoch = ep,
                   !.loc.honest_identities = filter_honest_identities(honests, errors, liars),
                   !.loc.liar_identities = liars,
                   !.loc.new_witnessing_acts = SumDict(revealing),
                   !.loc.stage = "filter",
                   !.error = IF has_logger THEN "none" ELSE "AttributeError"]

\* lines 386-390: expire, then issue
Expired(m, x) ==
            [m EXCEPT !.identities = x.identities,
                      !.reputation_expiry = x.reputation_expiry,
                      !.insert_reputation_differences = x.insert_reputation_differences,
                      !.error = x.error,
                      !.loc.expired_reputation = x.expired,
                      !.loc.issued_reputation =
                          IF x.error = "none"
                          THEN issue_reputation(m.witnessing_acts, m.loc.new_witnessing_acts)
                          ELSE @,
                      !.issued_total =
                          IF x.error = "none"
                          THEN @ + issue_reputation(m.witnessing_acts, m.loc.new_witnessing_acts)
                          ELSE @,
                      !.loc.stage = IF x.error = "none" THEN "expire" ELSE @]

\* mutant: the expiry step compares thresholds with witnessing_acts plus the new acts
StageExpirePostIncrement(m) ==
    IF m.error # "none" THEN m
    ELSE Expired(m, expire_reputation(m.identities, m.reputation_expiry,
                                      m.insert_reputation_differences,
                                      m.witnessing_acts + m.loc.new_witnessing_acts, m.epoch))

StageExpire(m) ==
    IF m.error # "none" THEN m
    ELSE Expired(m, expire_reputation(m.identities, m.reputation_expiry,
                                      m.insert_reputation_differences,
                                      m.witnessing_acts, m.epoch))

\* lines 392-396: penalise, then the total
Penalized(m, p) ==
            [m EXCEPT !.identities = p.identities,
                      !.reputation_expiry = p.reputation_expiry,
                      !.insert_reputation_differences = p.insert_reputation_differences,
                      !.error = p.error,
                      !.loc.penalized_reputation = p.penalized,
                      !.loc.total_reputation =
                          m.leftover_reputation + m.loc.expired_reputation
                              + m.loc.issued_reputation + p.penalized,
                      !.loc.stage = IF p.error = "none" THEN "penalize" ELSE @]

StagePenalize(m) ==
    IF m.error # "none" THEN m
    ELSE Penalized(m, penalize_liars(m.identities, m.reputation_expiry,
                                     m.insert_reputation_differences,
                                     m.loc.liar_identities, m.epoch))

\* lines 400-401: distribute
Distributed(m, d) ==
            [m EXCEPT !.identities = d.identities,
                      !.insert_reputation_differences = d.insert_reputation_differences,
                      !.loc.reputation_to_distribute = d.reputation_to_distribute,
                      !.loc.total_reputation_distributed = d.distributed,
                      !.loc.reputation_earning_identities = d.earning,
                      !.loc.stage = "distribute"]

StageDistribute(m) ==
    IF m.error # "none" THEN m
    ELSE Distributed(m, distribute_reputation(m.identities, m.insert_reputation_differences,
                                              m.loc.total_reputation,
                                              m.loc.honest_identities, m.epoch))

\* finalize_reputation_insertions (lines 106-119): one batch, then the buffer is cleared
finalize_reputation_insertions(m, fault) ==
    IF m.error # "none" THEN m
    ELSE IF m.insert_reputation_differences = <<>>
    THEN [m EXCEPT !.loc.stage = "flush"]
    ELSE IF fault = "flush"
    THEN [m EXCEPT !.error = "DatabaseError"]
    ELSE [m EXCEPT !.db_reputation = Append(@, m.insert_reputation_differences),
                   !.insert_reputation_differences = <<>>,
                   !.loc.stage = "flush"]

\* mutant: the new packet's threshold leaves out the update's new acts
NewPacketWithoutNewActs(m) ==
    LET earning == m.loc.reputation_earning_identities
        n == Len(earning)
        reputation_per_identity ==
            m.loc.total_reputation_distributed \div (IF n = 0 THEN 1 ELSE n)
    IN [threshold |-> m.witnessing_acts + reputation_expiration,
        amounts |-> [i \in {earning[k] : k \in 1..n} |-> reputation_per_identity]]

\* mutant: the new packet holds twice what each identity earned
NewPacketDoubled(m) ==
    LET earning == m.loc.reputation_earning_identities
        n == Len(earning)
        reputation_per_identity ==
            m.loc.total_reputation_distributed \div (IF n = 0 THEN 1 ELSE n)
    IN [threshold |-> m.witnessing_acts + m.loc.new_witnessing_acts + reputation_expiration,
        amounts |-> [i \in {earning[k] : k \in 1..n} |-> 2 * reputation_per_identity]]

\* lines 406-410: the new packet
NewPacket(m) ==
    LET earning == m.loc.reputation_earning_identities
        n == Len(earning)
        reputation_per_identity ==
            m.loc.total_reputation_distributed \div (IF n = 0 THEN 1 ELSE n)
    IN [threshold |-> m.witnessing_acts + m.loc.new_witnessing_acts + reputation_expiration,
        amounts |-> [i \in {earning[k] : k \in 1..n} |-> reputation_per_identity]]

\* mutant: the new packet is put at the front of the queue
StageAccountPrepends(m) ==
    IF m.error # "none" THEN m
    ELSE [m EXCEPT !.reputation_expiry =
                       IF m.loc.total_reputation_distributed > 0
                       THEN <<NewPacket(m)>> \o @ ELSE @,
                   !.leftover_reputation =
                       m.loc.total_reputation - m.loc.total_reputation_distributed,
                   !.witnessing_acts = @ + m.loc.new_witnessing_acts,
                   !.identities = clean(@),
                   !.loc.stage = "clean"]

\* mutant: witnessing_acts advances by the reputation issued, not by the new acts
StageAccountAdvancesByIssued(m) ==
    IF m.error # "none" THEN m
    ELSE [m EXCEPT !.reputation_expiry =
                       IF m.loc.total_reputation_distributed > 0
                       THEN Append(@, NewPacket(m)) ELSE @,
                   !.leftover_reputation =
                       m.loc.total_reputation - m.loc.total_reputation_distributed,
                   !.witnessing_acts = @ + m.loc.issued_reputation,
                   !.identities = clean(@),
                   !.loc.stage = "clean"]

\* mutant: the whole total is carried over, distributed or not
StageAccountKeepsTotal(m) ==
    IF m.error # "none" THEN m
    ELSE [m EXCEPT !.reputation_expiry =
                       IF m.loc.total_reputation_distributed > 0
                       THEN Append(@, NewPacket(m)) ELSE @,
                   !.leftover_reputation = m.loc.total_reputation,
                   !.witnessing_acts = @ + m.loc.new_witnessing_acts,
                   !.identities = clean(@),
                   !.loc.stage = "clean"]

\* lines 406-423: packet, leftover, witnessing acts, clean
StageAccount(m) ==
    IF m.error # "none" THEN m
    ELSE [m EXCEPT !.reputation_expiry =
                       IF m.loc.total_reputation_distributed > 0
                       THEN Append(@, NewPacket(m)) ELSE @,
                   !.leftover_reputation =
                       m.loc.total_reputation - m.loc.total_reputation_distributed,
                   !.witnessing_acts = @ + m.loc.new_witnessing_acts,
                   !.identities = clean(@),
                   !.loc.stage = "clean"]

\* line 426: the row of the live update
StageInsert(m, fault) ==
    IF m.error # "none" THEN m
    ELSE Completed(insert_trs(m, m.epoch, fault = "trs"), "return")

UpdateResult(ep, honests, errors, liars, revealing, has_logger, fault) ==
    StageInsert(
      StageAccount(
        finalize_reputation_insertions(
          StageDistribute(
            StagePenalize(
              StageExpire(
                StageFilter(
                  PhantomCycle([Machine EXCEPT !.loc.epoch = ep,
                                               !.loc.honests = honests,
                                               !.loc.errors = errors,
                                               !.loc.liars = liars,
                                               !.loc.revealing = revealing],
                               ep, has_logger, fault),
                  ep, honests, errors, liars, revealing, has_logger)))),
          fault)),
      fault)

\* ------------------------------------------- the block indexer
\* WitnetDatabase (witnet_database.py): its insert and update buffers, and the
\* store behind it: the hashes table, the item tables, and the statements the last
\* finalize executed. A buffered row keeps the hash and the columns an update can
\* change (epoch, confirmed); the other columns are payload no method reads back.
Tables == <<"blocks", "mint_txns", "value_transfer_txns", "data_request_txns",
            "commit_txns", "reveal_txns", "tally_txns">>

UpdatedTables == <<"blocks", "value_transfer_txns", "data_request_txns",
                   "reveal_txns", "tally_txns">>

\* __init__, lines 25-35, on an empty store
NewWitnetDatabase ==
    [insert_hashes |-> <<>>, update_hashes |-> <<>>,
     insert |-> [t \in {Tables[n] : n \in 1..Len(Tables)} |-> <<>>],
     update |-> [t \in {UpdatedTables[n] : n \in 1..Len(UpdatedTables)} |-> <<>>],
     last_epoch |-> 0,
     calls |-> 0, call |-> [method |-> "none"],
     db_hashes |-> <<>>,
     db_rows |-> [t \in {Tables[n] : n \in 1..Len(Tables)} |-> <<>>],
     statements |-> <<>>]

\* mutant: check_hash looks only in the hashes table
check_hash_stored_only(w, item_hash) ==
    \E n \in 1..Len(w.db_hashes) : w.db_hashes[n].hash = item_hash

\* check_hash, lines 734-741: the hash is buffered for insertion or stored
check_hash(w, item_hash) ==
    \/ \E n \in 1..Len(w.insert_hashes) : w.insert_hashes[n].hash = item_hash
    \/ \E n \in 1..Len(w.db_hashes) : w.db_hashes[n].hash = item_hash

\* the insert branch of the insert_* methods: the hash and the row are buffered
BufferInsert(w, table, type, item_hash, ep, row) ==
    [w EXCEPT !.insert_hashes = Append(@, [hash |-> item_hash, type |-> type, epoch |-> ep]),
              !.insert[table] = Append(@, row)]

\* the update branch of insert_value_transfer_txn, insert_data_request_txn,
\* insert_reveal_txn and insert_tally_txn: the epoch of the hash and of the row
BufferUpdate(w, table, item_hash, ep) ==
    [w EXCEPT !.update_hashes = Append(@, [hash |-> item_hash, epoch |-> ep]),
              !.update[table] = Append(@, [hash |-> item_hash, epoch |-> ep])]

\* insert_block, lines 45-81: a known block only has its confirmed status updated
insert_block(w, block_hash, ep, confirmed) ==
    IF ~check_hash(w, block_hash)
    THEN BufferInsert(w, "blocks", "block", block_hash, ep,
                      [hash |-> block_hash, epoch |-> ep, confirmed |-> confirmed])
    ELSE [w EXCEPT !.update["blocks"] =
                       Append(@, [hash |-> block_hash, confirmed |-> confirmed])]

\* insert_mint_txn, lines 83-103
insert_mint_txn(w, txn_hash, ep) ==
    IF ~check_hash(w, txn_hash)
    THEN BufferInsert(w, "mint_txns", "mint_txn", txn_hash, ep,
                      [hash |-> txn_hash, epoch |-> ep])
    ELSE w

\* insert_value_transfer_txn, lines 105-139
insert_value_transfer_txn(w, txn_hash, ep) ==
    IF ~check_hash(w, txn_hash)
    THEN BufferInsert(w, "value_transfer_txns", "value_transfer_txn", txn_hash, ep,
                      [hash |-> txn_hash, epoch |-> ep])
    ELSE BufferUpdate(w, "value_transfer_txns", txn_hash, ep)

\* insert_data_request_txn, lines 194-211: the hash of the RAD or DRO bytes is
\* buffered unless check_hash knows it
BufferBytesHash(w, bytes_hash, type) ==
    IF ~check_hash(w, bytes_hash)
    THEN [w EXCEPT !.insert_hashes =
                       Append(@, [hash |-> bytes_hash, type |-> type, epoch |-> 0])]
    ELSE w

\* insert_data_request_txn, lines 141-211
insert_data_request_txn(w, txn_hash, RAD_bytes_hash, DRO_bytes_hash, ep) ==
    BufferBytesHash(
        BufferBytesHash(
            IF ~check_hash(w, txn_hash)
            THEN BufferInsert(w, "data_request_txns", "data_request_txn", txn_hash, ep,
                              [hash |-> txn_hash, epoch |-> ep])
            ELSE BufferUpdate(w, "data_request_txns", txn_hash, ep),
            RAD_bytes_hash, "RAD_bytes_hash"),
        DRO_bytes_hash, "DRO_bytes_hash")

\* insert_commit_txn, lines 213-236
insert_commit_txn(w, txn_hash, ep) ==
    IF ~check_hash(w, txn_hash)
    THEN BufferInsert(w, "commit_txns", "commit_txn", txn_hash, ep,
                      [hash |-> txn_hash, epoch |-> ep])
    ELSE w

\* insert_reveal_txn, lines 238-275
insert_reveal_txn(w, txn_hash, ep) ==
    IF ~check_hash(w, txn_hash)
    THEN BufferInsert(w, "reveal_txns", "reveal_txn", txn_hash, ep,
                      [hash |-> txn_hash, epoch |-> ep])
    ELSE BufferUpdate(w, "reveal_txns", txn_hash, ep)

\* insert_tally_txn, lines 277-317
insert_tally_txn(w, txn_hash, ep) ==
    IF ~check_hash(w, txn_hash)
    THEN BufferInsert(w, "tally_txns", "tally_txn", txn_hash, ep,
                      [hash |-> txn_hash, epoch |-> ep])
    ELSE BufferUpdate(w, "tally_txns", txn_hash, ep)

\* one statement of finalize: executed only if its buffer holds rows
Statement(op, table, rows) ==
    IF rows = <<>> THEN <<>> ELSE <<[op |-> op, table |-> table, rows |-> rows]>>

\* UPDATE ... FROM (VALUES ...) WHERE hash = update.hash: a stored row takes the
\* columns of a buffered row with its hash; which one, when several match, is the
\* store's choice: pick says whether it is the first or the last
ApplyUpdates(stored, rows, pick) ==
    [n \in 1..Len(stored) |->
        LET matching == SelectSeq(rows, LAMBDA r : r.hash = stored[n].hash)
            chosen == IF pick = "first" THEN matching[1] ELSE matching[Len(matching)]
        IN IF matching = <<>> THEN stored[n]
           ELSE [f \in DOMAIN stored[n] |->
                    IF f \in DOMAIN chosen THEN chosen[f] ELSE stored[n][f]]]

\* finalize_insert, lines 354-515: the hashes, then the tables in their order
finalize_insert(w) ==
    [w EXCEPT !.statements =
                  @ \o Statement("INSERT", "hashes", w.insert_hashes)
                  \o Statement("INSERT", Tables[1], w.insert[Tables[1]])
                  \o Statement("INSERT", Tables[2], w.insert[Tables[2]])
                  \o Statement("INSERT", Tables[3], w.insert[Tables[3]])
                  \o Statement("INSERT", Tables[4], w.insert[Tables[4]])
                  \o Statement("INSERT", Tables[5], w.insert[Tables[5]])
                  \o Statement("INSERT", Tables[6], w.insert[Tables[6]])
                  \o Statement("INSERT", Tables[7], w.insert[Tables[7]]),
              !.db_hashes = @ \o w.insert_hashes,
              !.db_rows = [t \in DOMAIN @ |-> @[t] \o w.insert[t]],
              !.insert_hashes = <<>>,
              !.insert = [t \in DOMAIN @ |-> <<>>]]

\* finalize_update, lines 517-645: the hashes, then the tables in their order
finalize_update(w, pick) ==
    [w EXCEPT !.statements =
                  @ \o Statement("UPDATE", "hashes", w.update_hashes)
                  \o Statement("UPDATE", UpdatedTables[1], w.update[UpdatedTables[1]])
                  \o Statement("UPDATE", UpdatedTables[2], w.update[UpdatedTables[2]])
                  \o Statement("UPDATE", UpdatedTables[3], w.update[UpdatedTables[3]])
                  \o Statement("UPDATE", UpdatedTables[4], w.update[UpdatedTables[4]])
                  \o Statement("UPDATE", UpdatedTables[5], w.update[UpdatedTables[5]]),
              !.db_hashes = ApplyUpdates(@, w.update_hashes, pick),
              !.db_rows = [t \in DOMAIN @ |->
                              IF t \in DOMAIN w.update
                              THEN ApplyUpdates(@[t], w.update[t], pick) ELSE @[t]],
              !.update_hashes = <<>>,
              !.update = [t \in DOMAIN @ |-> <<>>]]

\* mutant: the buffered updates are executed before the buffered inserts
finalize_updates_first(w, ep, pick) ==
    finalize_insert(finalize_update([w EXCEPT !.last_epoch = IF ep = 0 - 1 THEN @ ELSE ep,
                                              !.statements = <<>>], pick))

\* finalize, lines 346-352; epoch = -1 stands for the last epoch finalized
finalize(w, ep, pick) ==
    finalize_update(finalize_insert([w EXCEPT !.last_epoch = IF ep = 0 - 1 THEN @ ELSE ep,
                                              !.statements = <<>>]), pick)

\* ------------------------------------------- the balance list build
\* BalanceList (balance_list.py) configured with node_retries, before build runs;
\* node_calls counts the calls of get_balance_all made so far
Configured(node_retries) ==
    [node_retries |-> node_retries, pc |-> "start", attempts |-> 0, node_calls |-> 0,
     address_labels |-> EmptyDict, address_balances |-> [error |-> FALSE, result |-> <<>>],
     returned |-> "none", addresses |-> <<>>, balances |-> <<>>, balances_sum |-> 0]

\* what the node answers to get_balance_all: an error, or the balances as
\* (address, total) pairs in the order of the dict, the total in units of half a
\* WIT (5 * 10^8 nanoWIT)
NodeAnswers ==
    {[error |-> TRUE, result |-> <<>>]}
    \cup {[error |-> FALSE, result |-> r] :
              r \in {<<>>} \cup {<<<<"A", h>>>> : h \in HalfWits}
                    \cup {<< <<"A", h>>, <<"B", k>> >> : h \in HalfWits, k \in HalfWits}}

\* build, lines 63-72: the addresses with 1 WIT or more (total // 1E9 >= 1), their
\* whole WITs and label, the int of the sum of total / 1E9
Kept(result) == SelectSeq(result, LAMBDA item : item[2] \div 2 >= 1)

Balances(result, address_labels) ==
    [n \in 1..Len(Kept(result)) |->
        <<Kept(result)[n][1], Kept(result)[n][2] \div 2,
          IF Kept(result)[n][1] \in DOMAIN address_labels
          THEN address_labels[Kept(result)[n][1]] ELSE "">>]

\* build, lines 63-78, once the node has answered with a result
Built(b) ==
    [b EXCEPT !.pc = "done", !.returned = "True",
              !.addresses = [n \in 1..Len(Kept(b.address_balances.result)) |->
                                Kept(b.address_balances.result)[n][1]],
              !.balances = Sorted(Balances(b.address_balances.result, b.address_labels)),
              !.balances_sum =
                  SumSeq([n \in 1..Len(Kept(b.address_balances.result)) |->
                             Kept(b.address_balances.result)[n][2]]) \div 2]

\* build, lines 49-61: one pass of the retry loop with the node's answer
Retried(b, answer) ==
    LET b1 == [b EXCEPT !.address_balances = answer, !.node_calls = @ + 1]
    IN IF ~answer.error THEN [b1 EXCEPT !.pc = "process"]
       ELSE IF b1.attempts + 1 = b1.node_retries
       THEN [b1 EXCEPT !.attempts = @ + 1, !.pc = "done", !.returned = "False"]
       ELSE [b1 EXCEPT !.attempts = @ + 1]

\* ------------------------------------------- the data request report
\* DataRequestReport (data_request_report.py): the commits and reveals of a data
\* request as the get_*_details methods left them, before add_missing_reveals
AskedReport(commits, reveals) ==
    [commits |-> commits, reveals |-> reveals, outcome |-> "none"]

\* add_missing_reveals, lines 137-148: the placeholder of a commit without reveal
MissingReveal(commit_address, missing_epoch, missing_time) ==
    [txn_address |-> commit_address, reveal |-> "No reveal", success |-> FALSE,
     epoch |-> missing_epoch, time |-> missing_time]

\* add_missing_reveals, lines 128-148: the loop over the commit addresses;
\* reveal_addresses is the list taken before the loop
RECURSIVE AddMissing(_, _, _, _)
AddMissing(reveals, commit_addresses, reveal_addresses, commits) ==
    IF commit_addresses = <<>> THEN reveals
    ELSE IF \E n \in 1..Len(reveal_addresses) : reveal_addresses[n] = Head(commit_addresses)
    THEN AddMissing(reveals, Tail(commit_addresses), reveal_addresses, commits)
    ELSE AddMissing(
             Append(reveals,
                    IF Len(reveals) > 0
                    THEN MissingReveal(Head(commit_addresses), reveals[1].epoch,
                                       reveals[1].time)
                    ELSE MissingReveal(Head(commit_addresses), commits[1].epoch + 1,
                                       start_time + (commits[1].epoch + 2) * epoch_period)),
             Tail(commit_addresses), reveal_addresses, commits)

\* add_missing_reveals, lines 124-150: nothing is done unless both lists are
\* non-empty
add_missing_reveals(commits, reveals) ==
    IF commits # <<>> /\ reveals # <<>>
    THEN AddMissing(reveals, [n \in 1..Len(commits) |-> commits[n].txn_address],
                    [n \in 1..Len(reveals) |-> reveals[n].txn_address], commits)
    ELSE reveals

\* ------------------------------------------------- inputs of update
\* the classified multisets of one epoch: honest, errors, liars
Classified ==
    { [honest |-> Cnt(0, 0), errors |-> Cnt(0, 0), liars |-> Cnt(0, 0)],
      [honest |-> Cnt(1, 0), errors |-> Cnt(0, 0), liars |-> Cnt(0, 0)],
      [honest |-> Cnt(2, 1), errors |-> Cnt(2, 0), liars |-> Cnt(0, 0)],
      [honest |-> Cnt(1, 1), errors |-> Cnt(2, 0), liars |-> Cnt(0, 0)],
      [honest |-> Cnt(1, 1), errors |-> Cnt(0, 0), liars |-> Cnt(1, 0)],
      [honest |-> Cnt(0, 1), errors |-> Cnt(0, 0), liars |-> Cnt(2, 0)],
      [honest |-> Cnt(0, 0), errors |-> Cnt(0, 0), liars |-> Cnt(1, 2)] }

\* the revealing multiset: 1, 20000 and 2^20 - 1 witnessing acts
Revealing == { Cnt(1, 0), Cnt(10000, 10000), Cnt(0, 1048575) }

Faults == {"none", "phantom_trs", "flush", "trs"}

\* ------------------------------------------------------------- Init
\* TRS.__init__ with load_trs = False; the address table is empty; self.logger is
\* assigned only if a logger is supplied
Constructed(has_logger) ==
    /\ logger = has_logger
    /\ witnessing_acts = 0
    /\ leftover_reputation = 0
    /\ reputation_expiry = <<>>
    /\ epoch = 0
    /\ identities = EmptyDict
    /\ insert_reputation_differences = <<>>
    /\ address_ids = [set |-> FALSE, map |-> EmptyDict]
    /\ db_addresses = <<>>
    /\ db_reputation = <<>>
    /\ db_trs = <<>>
    /\ issued_total = 0
    /\ calls = 0
    /\ outcome = "none"
    /\ last = NoLocals
    /\ ids_to_addresses = EmptyDict
    /\ got = NothingRead
    /\ trs_file = NoFile
    /\ shadow = NoShadow
    /\ replay = <<>>
    /\ balance_list = Idle
    /\ witnet_database = NewWitnetDatabase

\* the engine constructed with a logger
Fresh == Constructed(TRUE)

Init == Fresh /\ calculation = Asked(<<>>) /\ build = Configured(1) /\ report = AskedReport(<<>>, <<>>)

\* the engine constructed with a logger or without one
InitLogger ==
    \E has_logger \in BOOLEAN :
        Constructed(has_logger) /\ calculation = Asked(<<>>) /\ build = Configured(1) /\ report = AskedReport(<<>>, <<>>)

\* the dicts calculate_eligibilities is called with: up to three identities in any
\* insertion order, reputations 1..MaxReputation
Dicts ==
    LET items == {<<a, r>> : a \in EligibilityNames, r \in 1..MaxReputation}
    IN {d \in {<<>>} \cup {<<x>> : x \in items} \cup (items \X items)
                \cup (items \X items \X items) :
           \A n, k \in 1..Len(d) : d[n][1] = d[k][1] => n = k}

\* a fresh engine and a pending call of calculate_eligibilities
InitEligibility == Fresh /\ calculation \in {Asked(d) : d \in Dicts} /\ build = Configured(1) /\ report = AskedReport(<<>>, <<>>)

\* ---------------------------------------------------------- actions
\* the machine m becomes the next state; a fault is an input only where it strikes
Becomes(m, fault) ==
    /\ fault # "none" => m.error = "DatabaseError"
    /\ witnessing_acts' = m.witnessing_acts
    /\ leftover_reputation' = m.leftover_reputation
    /\ reputation_expiry' = m.reputation_expiry
    /\ epoch' = m.epoch
    /\ identities' = m.identities
    /\ insert_reputation_differences' = m.insert_reputation_differences
    /\ address_ids' = m.address_ids
    /\ db_addresses' = m.db_addresses
    /\ db_reputation' = m.db_reputation
    /\ db_trs' = m.db_trs
    /\ issued_total' = m.issued_total
    /\ outcome' = IF m.error = "none" THEN "returned" ELSE m.error
    /\ last' = m.loc

Update(ep, c, revealing, fault) ==
    /\ calls < MaxCalls
    /\ Becomes(UpdateResult(ep, c.honest, c.errors, c.liars, revealing, logger, fault), fault)
    /\ calls' = calls + 1
    /\ UNCHANGED <<logger, ids_to_addresses, got, trs_file, shadow, replay, side>>

GetAddressesToIds ==
    /\ address_ids # AddressTable(db_addresses)
    /\ address_ids' = AddressTable(db_addresses)
    /\ UNCHANGED <<logger, witnessing_acts, leftover_reputation, reputation_expiry, epoch,
                   identities, insert_reputation_differences, db_addresses,
                   db_reputation, db_trs, issued_total, calls, outcome, last,
                   ids_to_addresses, got, trs_file, shadow, replay, side>>

\* get_ids_to_addresses: the cache is replaced only if the table has rows
GetIdsToAddresses ==
    /\ db_addresses # <<>>
    /\ ids_to_addresses # IdTable(db_addresses)
    /\ ids_to_addresses' = IdTable(db_addresses)
    /\ UNCHANGED <<logger, witnessing_acts, leftover_reputation, reputation_expiry, epoch,
                   identities, insert_reputation_differences, address_ids, db_addresses,
                   db_reputation, db_trs, issued_total, calls, outcome, last, got,
                   trs_file, shadow, replay, side>>

\* get_trs(e): the row read is any row keyed by the epoch the search stops at
GetTrs(e) ==
    /\ \/ /\ TrsEpoch(e) = 0
          /\ got' = [NothingRead EXCEPT !.outcome = "returned"]
          /\ UNCHANGED address_ids
       \/ /\ TrsEpoch(e) # 0
          /\ \E n \in 1..Len(db_trs) :
                 /\ db_trs[n].epoch = TrsEpoch(e)
                 /\ got' = get_trs(db_trs[n], logger)
                 /\ address_ids' = IF CacheMiss(db_trs[n]) /\ logger
                                   THEN AddressTable(db_addresses) ELSE address_ids
    /\ UNCHANGED <<logger, witnessing_acts, leftover_reputation, reputation_expiry, epoch,
                   identities, insert_reputation_differences, db_addresses,
                   db_reputation, db_trs, issued_total, calls, outcome, last,
                   ids_to_addresses, trs_file, shadow, replay, side>>

\* the caller respects the protocol: epochs strictly increase, the store works
Next ==
    \/ \E ep \in (epoch + 1)..MaxEpoch, c \in Classified, revealing \in Revealing :
           Update(ep, c, revealing, "none")
    \/ GetAddressesToIds

Spec == Init /\ [][Next]_vars

\* ----------------------------------------- actions of the block indexer
\* the hashes of one kind
HashesOf(kind) == {<<kind, n>> : n \in 1..HashesPerKind}

\* a call of a method leaves w; calls and call record how many calls were made
\* and the last one
Called(w, call) ==
    /\ witnet_database.calls < MaxIndexerCalls
    /\ witnet_database' = [w EXCEPT !.calls = @ + 1, !.call = call]
    /\ UNCHANGED <<engine, balance_list, calculation, build, report>>

InsertBlock ==
    \E h \in HashesOf("block"), ep \in IndexerEpochs, confirmed \in BOOLEAN :
        Called(insert_block(witnet_database, h, ep, confirmed),
               [method |-> "insert_block", hash |-> h, epoch |-> ep,
                confirmed |-> confirmed])

InsertMintTxn ==
    \E h \in HashesOf("mint"), ep \in IndexerEpochs :
        Called(insert_mint_txn(witnet_database, h, ep),
               [method |-> "insert_mint_txn", hash |-> h, epoch |-> ep])

InsertValueTransferTxn ==
    \E h \in HashesOf("value_transfer"), ep \in IndexerEpochs :
        Called(insert_value_transfer_txn(witnet_database, h, ep),
               [method |-> "insert_value_transfer_txn", hash |-> h, epoch |-> ep])

InsertDataRequestTxn ==
    \E h \in {<<"data_request", n>> : n \in 1..DataRequestHashes}, rad \in HashesOf("RAD"), dro \in HashesOf("DRO"),
       ep \in IndexerEpochs :
        Called(insert_data_request_txn(witnet_database, h, rad, dro, ep),
               [method |-> "insert_data_request_txn", hash |-> h, epoch |-> ep,
                RAD_bytes_hash |-> rad, DRO_bytes_hash |-> dro])

InsertCommitTxn ==
    \E h \in HashesOf("commit"), ep \in IndexerEpochs :
        Called(insert_commit_txn(witnet_database, h, ep),
               [method |-> "insert_commit_txn", hash |-> h, epoch |-> ep])

InsertRevealTxn ==
    \E h \in HashesOf("reveal"), ep \in IndexerEpochs :
        Called(insert_reveal_txn(witnet_database, h, ep),
               [method |-> "insert_reveal_txn", hash |-> h, epoch |-> ep])

InsertTallyTxn ==
    \E h \in HashesOf("tally"), ep \in IndexerEpochs :
        Called(insert_tally_txn(witnet_database, h, ep),
               [method |-> "insert_tally_txn", hash |-> h, epoch |-> ep])

\* finalize(epoch), or finalize() for epoch = -1
Finalize ==
    \E ep \in {0 - 1} \cup IndexerEpochs, pick \in {"first", "last"} :
        Called(finalize(witnet_database, ep, pick), [method |-> "finalize", epoch |-> ep])

NextIndexer ==
    \/ InsertBlock
    \/ InsertMintTxn
    \/ InsertValueTransferTxn
    \/ InsertDataRequestTxn
    \/ InsertCommitTxn
    \/ InsertRevealTxn
    \/ InsertTallyTxn
    \/ Finalize

SpecIndexer == Init /\ [][NextIndexer]_vars

\* ------------------------------------------- building the balance list
\* build, lines 25-79, up to the first sleep of the retry loop: the labels (no
\* address or address A labelled), the first answer of the node and, when it is a
\* result, the lists built from it
BuildFetch ==
    /\ build.pc = "start"
    /\ \E address_labels \in {EmptyDict, Put(EmptyDict, "A", "exchange")}, answer \in NodeAnswers :
           LET b == [build EXCEPT !.address_labels = address_labels,
                                  !.address_balances = answer,
                                  !.node_calls = 1]
           IN build' = IF answer.error THEN [b EXCEPT !.pc = "retry"] ELSE Built(b)
    /\ UNCHANGED <<engine, balance_list, calculation, witnet_database, report>>

\* build, lines 49-79: one more pass of the retry loop, from the log line to the
\* next sleep, the return of False, or the return of True after a result
BuildRetry ==
    /\ build.pc = "retry"
    /\ build.node_calls < MaxNodeCalls
    /\ \E answer \in NodeAnswers :
           build' = IF Retried(build, answer).pc = "process"
                    THEN Built(Retried(build, answer))
                    ELSE Retried(build, answer)
    /\ UNCHANGED <<engine, balance_list, calculation, witnet_database, report>>

\* a balance list configured with any number of retries
InitBuild ==
    /\ Fresh
    /\ calculation = Asked(<<>>)
    /\ report = AskedReport(<<>>, <<>>)
    /\ build \in {Configured(node_retries) : node_retries \in 0..MaxRetries}

SpecBuild == InitBuild /\ [][BuildFetch \/ BuildRetry]_vars

\* ------------------------------------------- making the report
\* the sequences of at most two items with distinct addresses
UpToTwo(items) ==
    {<<>>} \cup {<<x>> : x \in items}
           \cup {pair \in {<<x, y>> : x \in items, y \in items} :
                      pair[1].txn_address # pair[2].txn_address}

\* a report whose commits and reveals have been fetched: the commits of a data
\* request and the reveals of some of the committers, as get_commit_details and
\* get_reveal_details return them
InitReport ==
    /\ Fresh
    /\ calculation = Asked(<<>>)
    /\ build = Configured(1)
    /\ report \in {r \in {AskedReport(commits, reveals) :
                              commits \in UpToTwo([txn_address : ReportAddresses,
                                                   epoch : ReportEpochs]),
                              reveals \in UpToTwo({[txn_address |-> a, reveal |-> "value",
                                                    success |-> TRUE, epoch |-> e,
                                                    time |-> start_time + (e + 1) * epoch_period] :
                                                       a \in ReportAddresses,
                                                       e \in ReportEpochs})} :
                       \A n \in 1..Len(r.reveals) :
                           \E k \in 1..Len(r.commits) :
                               r.commits[k].txn_address = r.reveals[n].txn_address}

\* get_report, lines 86-87: the call of add_missing_reveals
AddMissingReveals ==
    /\ report.outcome = "none"
    /\ report' = [report EXCEPT !.reveals = add_missing_reveals(report.commits, report.reveals),
                                !.outcome = "returned"]
    /\ UNCHANGED <<engine, balance_list, calculation, witnet_database, build>>

SpecReport == InitReport /\ [][AddMissingReveals]_vars

\* the same protocol for an engine built with or without a logger
SpecLogger == InitLogger /\ [][Next]_vars

\* any epoch, the store works
NextAny ==
    \/ \E ep \in 1..MaxEpoch, c \in Classified, revealing \in Revealing :
           Update(ep, c, revealing, "none")
    \/ GetAddressesToIds

SpecAny == Init /\ [][NextAny]_vars

\* epochs strictly increase, the store may refuse a write
NextFault ==
    \/ \E ep \in (epoch + 1)..MaxEpoch, c \in Classified, revealing \in Revealing,
          fault \in Faults :
           Update(ep, c, revealing, fault)
    \/ GetAddressesToIds

SpecFault == Init /\ [][NextFault]_vars

\* clean() called on the engine at rest; the call is not an update, so no locals of
\* update remain
Clean ==
    /\ identities' = clean(identities)
    /\ outcome' = "returned"
    /\ last' = NoLocals
    /\ UNCHANGED <<logger, witnessing_acts, leftover_reputation, reputation_expiry, epoch,
                   insert_reputation_differences, address_ids, db_addresses,
                   db_reputation, db_trs, issued_total, calls, ids_to_addresses, got,
                   trs_file, shadow, replay, side>>

\* epochs strictly increase, the flush may be refused (the update then stops before
\* its own clean), clean is called between updates
NextClean ==
    \/ \E ep \in (epoch + 1)..MaxEpoch, c \in Classified, revealing \in Revealing,
          fault \in {"none", "flush"} :
           Update(ep, c, revealing, fault)
    \/ GetAddressesToIds
    \/ Clean

SpecClean == Init /\ [][NextClean]_vars

\* an update the caller will issue again if the process crashes before the next
\* snapshot file is written
UpdateLogged(ep, c, revealing) ==
    /\ ~shadow.crashed
    /\ calls < MaxCalls
    /\ Becomes(UpdateResult(ep, c.honest, c.errors, c.liars, revealing, logger, "none"), "none")
    /\ calls' = calls + 1
    /\ replay' = Append(replay, [epoch |-> ep, classified |-> c, revealing |-> revealing])
    /\ UNCHANGED <<logger, ids_to_addresses, got, trs_file, shadow, side>>

\* persist_trs, called at an epoch boundary after an update that returned
PersistTrs ==
    /\ ~shadow.crashed
    /\ outcome = "returned"
    /\ replay # <<>>
    /\ trs_file' = DumpTrs
    /\ replay' = <<>>
    /\ UNCHANGED <<logger, witnessing_acts, leftover_reputation, reputation_expiry, epoch,
                   identities, insert_reputation_differences, address_ids, db_addresses,
                   db_reputation, db_trs, issued_total, calls, outcome, last,
                   ids_to_addresses, got, shadow, side>>

\* a snapshot file exists; the process dies after the last update flushed its deltas
\* and before the snapshot file is written again; a new engine is constructed with
\* load_trs = True on the same store (__init__, lines 7-60)
CrashRestart ==
    /\ ~shadow.crashed
    /\ trs_file.exists
    /\ replay # <<>>
    /\ last.stage \in {"flush", "clean", "return"}
    /\ shadow' = [crashed |-> TRUE, engine |-> Snapshot]
    /\ witnessing_acts' = LoadTrs(trs_file).witnessing_acts
    /\ leftover_reputation' = LoadTrs(trs_file).leftover_reputation
    /\ reputation_expiry' = LoadTrs(trs_file).reputation_expiry
    /\ epoch' = LoadTrs(trs_file).epoch
    /\ identities' = LoadTrs(trs_file).identities
    /\ insert_reputation_differences' = <<>>
    /\ address_ids' = [set |-> FALSE, map |-> EmptyDict]
    /\ ids_to_addresses' = IF db_addresses = <<>> THEN EmptyDict ELSE IdTable(db_addresses)
    /\ outcome' = "none"
    /\ last' = NoLocals
    /\ got' = NothingRead
    /\ UNCHANGED <<logger, db_addresses, db_reputation, db_trs, issued_total, calls,
                   trs_file, replay, side>>

\* after the restart the caller issues again, in order, the updates made since the
\* snapshot file was written
Reissue ==
    /\ shadow.crashed
    /\ replay # <<>>
    /\ Becomes(UpdateResult(Head(replay).epoch, Head(replay).classified.honest,
                            Head(replay).classified.errors, Head(replay).classified.liars,
                            Head(replay).revealing, logger, "none"), "none")
    /\ replay' = Tail(replay)
    /\ UNCHANGED <<logger, calls, ids_to_addresses, got, trs_file, shadow, side>>

\* epochs strictly increase, the store works, the process may crash and restart once
NextCrash ==
    \/ \E ep \in (epoch + 1)..MaxEpoch, c \in Classified, revealing \in Revealing :
           UpdateLogged(ep, c, revealing)
    \/ GetAddressesToIds
    \/ PersistTrs
    \/ CrashRestart
    \/ Reissue

SpecCrash == Init /\ [][NextCrash]_vars

\* the block indexer's insert_addresses (witnet_database.py 319-344): INSERT ... ON
\* CONFLICT ON CONSTRAINT addresses_pkey DO UPDATE; an address already in the table
\* keeps its row and its id, a new one gets the next id
IndexerInsert(a) ==
    /\ \A n \in 1..Len(db_addresses) : db_addresses[n] # a
    /\ db_addresses' = Append(db_addresses, a)
    /\ UNCHANGED <<logger, witnessing_acts, leftover_reputation, reputation_expiry, epoch,
                   identities, insert_reputation_differences, address_ids, db_reputation,
                   db_trs, issued_total, calls, outcome, last, ids_to_addresses, got,
                   trs_file, shadow, replay, side>>

\* BalanceList.insert_addresses up to its get_address_ids (balance_list.py 103-124):
\* the table is read into the balance list's own cache
BalanceListRead(addresses) ==
    /\ balance_list.pc = "idle"
    /\ balance_list' = [pc |-> "read", addresses |-> addresses,
                        address_ids |-> AddressTable(db_addresses).map,
                        outcome |-> "none"]
    /\ UNCHANGED <<logger, witnessing_acts, leftover_reputation, reputation_expiry, epoch,
                   identities, insert_reputation_differences, address_ids, db_addresses,
                   db_reputation, db_trs, issued_total, calls, outcome, last,
                   ids_to_addresses, got, trs_file, shadow, replay, calculation, others>>

\* BalanceList.insert_addresses from the loop on (balance_list.py 125-139): the
\* addresses missing from the cache are inserted with a plain INSERT
BalanceListInsert ==
    /\ balance_list.pc = "read"
    /\ LET addresses_to_insert ==
               SelectSeq(balance_list.addresses,
                         LAMBDA a : a \notin DOMAIN balance_list.address_ids)
       IN IF Conflict(addresses_to_insert, db_addresses)
          THEN /\ balance_list' = [Idle EXCEPT !.pc = "done",
                                               !.outcome = "UniqueViolation"]
               /\ UNCHANGED db_addresses
          ELSE /\ balance_list' = [Idle EXCEPT !.pc = "done", !.outcome = "returned"]
               /\ db_addresses' = db_addresses \o addresses_to_insert
    /\ UNCHANGED <<logger, witnessing_acts, leftover_reputation, reputation_expiry, epoch,
                   identities, insert_reputation_differences, address_ids, db_reputation,
                   db_trs, issued_total, calls, outcome, last, ids_to_addresses, got,
                   trs_file, shadow, replay, calculation, others>>

\* epochs strictly increase, the store works, the address table is shared with the
\* block indexer and with one run of the balance list
NextShared ==
    \/ /\ calls < SharedCalls
       /\ \E ep \in (epoch + 1)..MaxEpoch, c \in Classified, revealing \in Revealing :
              Update(ep, c, revealing, "none")
    \/ GetAddressesToIds
    \/ \E a \in Identities : IndexerInsert(a)
    \/ \E addresses \in {<<"A">>, <<"B">>, <<"A", "B">>} : BalanceListRead(addresses)
    \/ BalanceListInsert

SpecShared == Init /\ [][NextShared]_vars

\* calculate_eligibilities(identities), a function of its argument alone
CalculateEligibilities ==
    /\ calculation.outcome = "none"
    /\ calculation' = calculate_eligibilities(calculation.identities)
    /\ UNCHANGED <<logger, witnessing_acts, leftover_reputation, reputation_expiry, epoch,
                   identities, insert_reputation_differences, address_ids, db_addresses,
                   db_reputation, db_trs, issued_total, calls, outcome, last,
                   ids_to_addresses, got, trs_file, shadow, replay, balance_list, others>>

NextEligibility == CalculateEligibilities

SpecEligibility == InitEligibility /\ [][NextEligibility]_vars

\* epochs strictly increase, the store works, the caller also reads the trs table
NextRead ==
    \/ \E ep \in (epoch + 1)..MaxEpoch, c \in Classified, revealing \in Revealing :
           Update(ep, c, revealing, "none")
    \/ GetAddressesToIds
    \/ GetIdsToAddresses
    \/ \E e \in 0..MaxEpoch : GetTrs(e)

SpecRead == Init /\ [][NextRead]_vars

\* ------------------------------------------------------------ claims
EngineState == <<witnessing_acts, leftover_reputation, reputation_expiry, epoch,
                 identities, insert_reputation_differences>>

\* a step of the behaviour that is one call of update
UpdateStep == calls' = calls + 1

\* the reputation of identity i held in the packets of a queue
PacketSum(queue, i) == SumSeq([n \in 1..Len(queue) |-> Get(queue[n].amounts, i)])

PacketTotal(queue) == SumSeq([n \in 1..Len(queue) |-> SumDict(queue[n].amounts)])

\* C1: after any update returns, every identity's reputation (0 if absent) is the sum
\* of its amounts over the packets still queued, and the map and the packets have
\* the same total
C1_PacketAccounting ==
    outcome = "returned" =>
        /\ \A i \in Identities : Get(identities, i) = PacketSum(reputation_expiry, i)
        /\ SumDict(identities) = PacketTotal(reputation_expiry)

\* C1 witness: an update returned after a penalty, with both identities reputed and
\* reputation spread over two packets
C1_Witness ==
    /\ outcome = "returned"
    /\ last.penalized_reputation > 0
    /\ Len(reputation_expiry) >= 2
    /\ \E i \in DOMAIN identities :
           \A n \in 1..Len(reputation_expiry) : identities[i] > Get(reputation_expiry[n].amounts, i)

\* C2: witnessing_acts never decreases, the reputation issued so far never exceeds
\* issuance_stop, and an update that starts at witnessing_acts >= issuance_stop issues 0
C2_IssuanceCapped ==
    [][/\ witnessing_acts' >= witnessing_acts
       /\ issued_total' <= reputation_issuance_stop
       /\ (UpdateStep /\ witnessing_acts >= reputation_issuance_stop) =>
              (last'.issued_reputation = 0 /\ issued_total' = issued_total)]_vars

\* C2 witness: an update with new witnessing acts returned after starting at or above
\* issuance_stop, with all of issuance_stop issued
C2_Witness ==
    /\ outcome = "returned"
    /\ last.new_witnessing_acts > 0
    /\ witnessing_acts - last.new_witnessing_acts >= reputation_issuance_stop
    /\ last.issued_reputation = 0
    /\ issued_total = reputation_issuance_stop

\* C3 (the claim as stated): an update whose epoch is <= the stored epoch is rejected
\* and leaves the engine state unchanged
C3_ReplayRejected ==
    [][(UpdateStep /\ last'.epoch <= epoch) =>
           (outcome' # "returned" /\ UNCHANGED EngineState)]_vars

\* C4 (the claim as stated): after the store refused the delta flush or the row, the
\* engine shows no partial mutation: every identity's reputation is the sum of its
\* packet amounts
C4_NoPartialMutation ==
    outcome = "DatabaseError" =>
        \A i \in Identities : Get(identities, i) = PacketSum(reputation_expiry, i)

\* the rows one step appends to the trs table
RowsWritten == SubSeq(db_trs', Len(db_trs) + 1, Len(db_trs'))

\* the reputation a row lists for identity i (0 if the row does not list it)
RowReputation(row, table, i) ==
    SumSeq([n \in 1..Len(row.addresses) |->
                IF table[row.addresses[n]] = i THEN row.reputations[n] ELSE 0])

\* what the packets that are due at the current witnessing_acts hold for identity i
DueSum(i) ==
    SumSeq([n \in 1..Len(reputation_expiry) |->
                IF reputation_expiry[n].threshold <= witnessing_acts
                THEN Get(reputation_expiry[n].amounts, i) ELSE 0])

\* C5 (the claim as stated): every update with epoch > stored epoch + 1 that returns,
\* also on a fresh engine, has written the phantom row keyed stored epoch + 1 and
\* then the row keyed epoch
C5_PhantomAlways ==
    [][(UpdateStep /\ outcome' = "returned" /\ last'.epoch > epoch + 1) =>
           /\ Len(RowsWritten) = 2
           /\ RowsWritten[1].epoch = epoch + 1
           /\ RowsWritten[2].epoch = last'.epoch]_vars

\* C5 (amended): with a stored epoch other than 0, an update with epoch > stored
\* epoch + 1 runs the phantom cycle first: the row keyed stored epoch + 1 lists the
\* identities as the expiry step and clean leave them, the live update (new stored
\* epoch, row keyed epoch) comes only after that row, no other row is written, and an
\* update that returns has written both rows; a fresh engine (stored epoch 0) runs no
\* phantom cycle and writes at most the row keyed epoch
C5_PhantomWhenStored ==
    [][(UpdateStep /\ last'.epoch > epoch + 1) =>
           IF epoch = 0
           THEN /\ ~last'.phantom
                /\ Len(RowsWritten) <= 1
                /\ outcome' = "returned" => Len(RowsWritten) = 1
                /\ \A n \in 1..Len(RowsWritten) : RowsWritten[n].epoch = last'.epoch
           ELSE /\ Len(RowsWritten) <= 2
                /\ epoch' # epoch => Len(RowsWritten) >= 1
                /\ outcome' = "returned" => Len(RowsWritten) = 2
                /\ last'.phantom
                /\ Len(RowsWritten) = 2 => RowsWritten[2].epoch = last'.epoch
                /\ Len(RowsWritten) >= 1 =>
                       /\ RowsWritten[1].epoch = epoch + 1
                       /\ \A n \in 1..Len(RowsWritten[1].reputations) :
                              RowsWritten[1].reputations[n] > 0
                       /\ \A i \in Identities :
                              RowReputation(RowsWritten[1], db_addresses', i)
                                  = Get(identities, i) - DueSum(i)]_vars

\* C5 witness: a gap update returned whose phantom row is keyed at least two epochs
\* before the live row, so that an epoch in between got no row
C5_Witness ==
    /\ outcome = "returned"
    /\ last.phantom
    /\ Len(db_trs) >= 2
    /\ db_trs[Len(db_trs)].epoch = last.epoch
    /\ db_trs[Len(db_trs) - 1].epoch + 1 < last.epoch

\* ---------------------------------------------- one update, as a step
RECURSIVE Flatten(_)
Flatten(batches) ==
    IF batches = <<>> THEN <<>> ELSE Head(batches) \o Flatten(Tail(batches))

\* every delta record so far: the flushed batches, then the buffer
AllDeltas == Flatten(db_reputation) \o insert_reputation_differences

\* the delta records one step appends
NewDeltas == SubSeq(AllDeltas', Len(AllDeltas) + 1, Len(AllDeltas'))

Count(seq, address, ep, reputation, type) ==
    Len(SelectSeq(seq, LAMBDA r : r = Delta(address, ep, reputation, type)))

CountType(seq, type) == Len(SelectSeq(seq, LAMBDA r : r.type = type))

\* the packets of the current queue that are not due at the current witnessing_acts
KeptPackets == SelectSeq(reputation_expiry, LAMBDA packet : packet.threshold > witnessing_acts)

DuePackets == SelectSeq(reputation_expiry, LAMBDA packet : packet.threshold <= witnessing_acts)

\* the step is an update that has run its expiry step (live, or of the phantom cycle)
ExpiryRan == UpdateStep /\ (last'.phantom \/ last'.stage \notin {"start", "filter"})

\* the step is an update that has run the penalise step, or the distribute step
PenaliseRan == UpdateStep /\ last'.stage \in {"penalize", "distribute", "flush", "clean", "return"}

DistributeRan == UpdateStep /\ last'.stage \in {"distribute", "flush", "clean", "return"}

\* the epoch the expiry step of the step stamps on its records
ExpiryEpoch == IF last'.phantom THEN epoch + 1 ELSE last'.epoch

\* the reputation of identity i once the expiry step has run
AfterExpiry(i) == Get(identities, i) - DueSum(i)

\* whether identity i is in the identity map when the penalise step runs: expiry
\* keeps keys, the clean of a phantom cycle drops those at 0
InMapAtPenalise(i) ==
    i \in DOMAIN identities /\ (last'.phantom => AfterExpiry(i) > 0)

Penalty(i) ==
    AfterExpiry(i) - (AfterExpiry(i) \div Pow(2, last'.liar_identities[i]))

\* C6: an update drains exactly the packets whose threshold is <= witnessing_acts
\* as it is before the update adds its new acts; a packet whose threshold is only
\* reached by the update's own acts stays queued (so the next update drains it);
\* every entry of a drained packet is recorded as one (-amount, expire) delta and is
\* subtracted from the identity map
C6_DrainOnPreIncrement ==
    [][ExpiryRan =>
           /\ Len(reputation_expiry') >= Len(KeptPackets)
           /\ Len(reputation_expiry') <= Len(KeptPackets) + 1
           /\ \A n \in 1..Len(KeptPackets) :
                  reputation_expiry'[n].threshold = KeptPackets[n].threshold
           /\ \A n \in 1..Len(reputation_expiry) :
                  (/\ reputation_expiry[n].threshold > witnessing_acts
                   /\ reputation_expiry[n].threshold <= witnessing_acts')
                      => \E k \in 1..Len(reputation_expiry') :
                             /\ reputation_expiry'[k].threshold = reputation_expiry[n].threshold
                             /\ reputation_expiry'[k].threshold <= witnessing_acts'
           /\ CountType(NewDeltas, "expire")
                  = SumSeq([n \in 1..Len(DuePackets) |-> Cardinality(DOMAIN DuePackets[n].amounts)])
           /\ \A n \in 1..Len(DuePackets) : \A i \in DOMAIN DuePackets[n].amounts :
                  Count(NewDeltas, i, ExpiryEpoch, 0 - DuePackets[n].amounts[i], "expire")
                      = Cardinality({k \in 1..Len(DuePackets) :
                                        Get(DuePackets[k].amounts, i) = DuePackets[n].amounts[i]})
           /\ \A i \in Identities :
                  (last'.liar_identities[i] = 0 /\ last'.reputation_earning_identities = <<>>)
                      => Get(identities', i) = Get(identities, i) - DueSum(i)]_vars

\* C6 witness: a live update returned that drained a packet: it expired reputation and
\* flushed an (-amount, expire) record stamped with its own epoch
C6_Witness ==
    /\ outcome = "returned"
    /\ ~last.phantom
    /\ last.expired_reputation > 0
    /\ db_reputation # <<>>
    /\ \E n \in 1..Len(db_reputation[Len(db_reputation)]) :
           LET r == db_reputation[Len(db_reputation)][n]
           IN r.type = "expire" /\ r.epoch = last.epoch /\ r.reputation < 0

\* the liars of the step that are in the identity map when the penalise step runs
LiarsInMap == {i \in Identities : last'.liar_identities[i] > 0 /\ InMapAtPenalise(i)}

\* the sum of the penalties of the step
PenaltyTotal ==
    SumSeq([n \in 1..Len(IdOrder) |->
               IF IdOrder[n] \in LiarsInMap THEN Penalty(IdOrder[n]) ELSE 0])

\* the reputation due for expiry at the current witnessing_acts, over all identities
DueTotal == SumSeq([n \in 1..Len(IdOrder) |-> DueSum(IdOrder[n])])

\* C7: a liar with multiplicity k that is in the identity map with reputation c when
\* the penalise step runs is left with c \div 2^k, its penalty c - c \div 2^k is part of
\* the penalised amount that enters the update's total, and exactly one
\* (-penalty, lie) delta is recorded for it
C7_PenaltyHalving ==
    [][PenaliseRan =>
           /\ \A i \in LiarsInMap :
                  /\ Get(identities', i) = AfterExpiry(i) \div Pow(2, last'.liar_identities[i])
                  /\ Count(NewDeltas, i, last'.epoch, 0 - Penalty(i), "lie") = 1
                  /\ Len(SelectSeq(NewDeltas, LAMBDA r : r.type = "lie" /\ r.address = i)) = 1
           /\ last'.penalized_reputation = PenaltyTotal
           /\ DistributeRan =>
                  last'.total_reputation
                      = leftover_reputation + DueTotal + last'.issued_reputation + PenaltyTotal]_vars

\* C7 witness: an update returned in which an identity lied twice, lost three quarters
\* (rounded up) of a positive reputation and kept the rest
C7_Witness ==
    /\ outcome = "returned"
    /\ db_reputation # <<>>
    /\ \E i \in Identities :
           /\ last.liar_identities[i] = 2
           /\ Get(identities, i) > 0
           /\ last.penalized_reputation > 2 * Get(identities, i)
           /\ Count(db_reputation[Len(db_reputation)], i, last.epoch,
                    0 - last.penalized_reputation, "lie") = 1

\* C8: the penalise step takes exactly the liar's penalty out of the liar's entries
\* of the queued packets, newest packet first: an entry of an older packet is lowered
\* or removed only if no newer packet still holds an entry of the liar; the entries
\* of every other identity are left as they were
C8_NewestFirst ==
    [][PenaliseRan =>
           /\ Len(reputation_expiry') >= Len(KeptPackets)
           /\ \A i \in LiarsInMap :
                  /\ SumSeq([n \in 1..Len(KeptPackets) |->
                                Get(KeptPackets[n].amounts, i)
                                    - Get(reputation_expiry'[n].amounts, i)]) = Penalty(i)
                  /\ \A n \in 1..Len(KeptPackets) :
                         /\ Get(reputation_expiry'[n].amounts, i) <= Get(KeptPackets[n].amounts, i)
                         /\ i \in DOMAIN reputation_expiry'[n].amounts
                                => /\ i \in DOMAIN KeptPackets[n].amounts
                                   /\ reputation_expiry'[n].amounts[i] > 0
                         /\ Get(reputation_expiry'[n].amounts, i) < Get(KeptPackets[n].amounts, i)
                                => \A k \in (n + 1)..Len(KeptPackets) :
                                       i \notin DOMAIN reputation_expiry'[k].amounts
           /\ \A i \in Identities \ LiarsInMap :
                  \A n \in 1..Len(KeptPackets) :
                      /\ i \in DOMAIN reputation_expiry'[n].amounts
                             <=> i \in DOMAIN KeptPackets[n].amounts
                      /\ Get(reputation_expiry'[n].amounts, i) = Get(KeptPackets[n].amounts, i)]_vars

\* C8 witness: an update returned whose penalty emptied a newer packet and left the
\* liar an entry in an older one that is all the reputation it keeps
C8_Witness ==
    /\ outcome = "returned"
    /\ last.penalized_reputation > 0
    /\ \E i \in Identities :
           /\ last.liar_identities[i] > 0
           /\ \E n \in 1..Len(reputation_expiry) :
                  /\ i \in DOMAIN reputation_expiry[n].amounts
                  /\ reputation_expiry[n].amounts[i] = Get(identities, i)
                  /\ \E k \in (n + 1)..Len(reputation_expiry) :
                         reputation_expiry[k].amounts = EmptyDict

GainRecords(i) == Len(SelectSeq(NewDeltas, LAMBDA r : r.type = "gain" /\ r.address = i))

\* C9: the total of an update is leftover + expired + issued + penalised and the share
\* is total \div max(1, |H|) for the filtered honest set H; when the share is positive
\* every identity of H (entered at 0 if absent) gains the share exactly once, however
\* often it revealed honestly, with one (+share, gain) delta; no identity outside H
\* gains, and nobody gains when the share is 0
C9_EqualShares ==
    [][DistributeRan =>
           LET H == last'.honest_identities
               share == last'.reputation_to_distribute
           IN /\ last'.total_reputation
                     = leftover_reputation + DueTotal + last'.issued_reputation
                           + last'.penalized_reputation
              /\ \/ last'.phantom /\ last'.expired_reputation = 0
                 \/ ~last'.phantom /\ last'.expired_reputation = DueTotal
              /\ share = last'.total_reputation \div (IF H = {} THEN 1 ELSE Cardinality(H))
              /\ \A i \in H :
                     /\ Get(identities', i) = AfterExpiry(i) + share
                     /\ GainRecords(i) = (IF share > 0 THEN 1 ELSE 0)
                     /\ share > 0 => Count(NewDeltas, i, last'.epoch, share, "gain") = 1
              /\ \A i \in Identities \ H :
                     /\ GainRecords(i) = 0
                     /\ Get(identities', i) <= AfterExpiry(i)]_vars

\* C9 witness: an update returned that shared an odd total between two honest
\* identities, one of which revealed honestly twice and was not in the map before
C9_Witness ==
    /\ outcome = "returned"
    /\ last.honest_identities = {"A", "B"}
    /\ last.honests["A"] = 2
    /\ last.reputation_to_distribute > 0
    /\ last.total_reputation = 2 * last.reputation_to_distribute + 1
    /\ Get(identities, "A") = last.reputation_to_distribute

\* C10: once an update has set it, leftover_reputation is the total minus the share
\* times the number of identities that received it; it is never negative, and it is
\* the whole total when the share is 0 or no identity is honest
C10_Leftover ==
    /\ leftover_reputation >= 0
    /\ last.stage \in {"clean", "return"} =>
           /\ leftover_reputation
                  = last.total_reputation
                        - last.reputation_to_distribute * Len(last.reputation_earning_identities)
           /\ last.reputation_to_distribute > 0 =>
                  Len(last.reputation_earning_identities) = Cardinality(last.honest_identities)
           /\ (last.reputation_to_distribute = 0 \/ last.honest_identities = {}) =>
                  leftover_reputation = last.total_reputation

\* C10 witness: an update returned with a positive total and nobody honest, so the
\* whole total is carried over
C10_Witness ==
    /\ outcome = "returned"
    /\ last.honest_identities = {}
    /\ last.reputation_to_distribute > 0
    /\ leftover_reputation = last.total_reputation
    /\ last.total_reputation > last.issued_reputation

\* the step is an update that has run the honest filter
FilterRan == UpdateStep /\ last'.stage # "start"

\* C11: the honest filter selects exactly the identities that appear in honest, have
\* no lie in liars and at least as many honest reveals as errors; the liars multiset
\* is handed on as given, and an identity that lied receives no distribution
C11_HonestFilter ==
    [][FilterRan =>
           /\ last'.honest_identities
                  = {i \in Identities : /\ last'.honests[i] > 0
                                        /\ last'.liars[i] = 0
                                        /\ last'.honests[i] >= last'.errors[i]}
           /\ last'.liar_identities = last'.liars
           /\ \A i \in Identities :
                  last'.liars[i] > 0 =>
                      /\ i \notin last'.honest_identities
                      /\ GainRecords(i) = 0
                      /\ \A n \in 1..Len(last'.reputation_earning_identities) :
                             last'.reputation_earning_identities[n] # i
                      /\ Get(identities', i) <= Get(identities, i)]_vars

\* C11 witness: an update returned in which one identity revealed honestly and lied,
\* so only the other was honest and gained, and the liar was penalised
C11_Witness ==
    /\ outcome = "returned"
    /\ \E i \in Identities :
           /\ last.honests[i] > 0
           /\ last.liars[i] > 0
           /\ i \notin last.honest_identities
           /\ last.penalized_reputation > 0
           /\ last.honest_identities # {}
           /\ last.reputation_to_distribute > 0

Max(a, b) == IF a >= b THEN a ELSE b

Min(a, b) == IF a <= b THEN a ELSE b

\* the step is an update that has run the issue step, or has advanced witnessing_acts
IssueRan == UpdateStep /\ last'.stage \notin {"start", "filter"}

AccountRan == UpdateStep /\ last'.stage \in {"clean", "return"}

\* C12: an update issues max(0, min(2^20, witnessing_acts + new_wa) - witnessing_acts)
\* for the witnessing_acts it starts with and new_wa the sum of the multiplicities of
\* revealing, and then advances witnessing_acts by the whole new_wa, capped or not
C12_Issuance ==
    [][/\ FilterRan => last'.new_witnessing_acts = SumDict(last'.revealing)
       /\ IssueRan =>
              last'.issued_reputation
                  = Max(0, Min(1048576, witnessing_acts + SumDict(last'.revealing))
                               - witnessing_acts)
       /\ AccountRan => witnessing_acts' = witnessing_acts + SumDict(last'.revealing)
       /\ (UpdateStep /\ ~AccountRan) => witnessing_acts' = witnessing_acts]_vars

\* C12 witness: an update that started at 2^20 - 1 witnessing acts with more than one
\* new act issued 1 and advanced witnessing_acts past 2^20 by all its new acts
C12_Witness ==
    /\ outcome = "returned"
    /\ last.new_witnessing_acts > 1
    /\ last.issued_reputation = 1
    /\ witnessing_acts = 1048575 + last.new_witnessing_acts

\* C13: an update that distributes appends exactly one packet at the back of the
\* queue, with threshold (witnessing_acts before the update) + new_wa + 20000 and an
\* entry identity -> share for exactly the identities that gained; an update that
\* distributes nothing appends none
C13_OnePacket ==
    [][AccountRan =>
           LET earning == {last'.reputation_earning_identities[n] :
                               n \in 1..Len(last'.reputation_earning_identities)}
           IN IF earning # {}
              THEN /\ last'.reputation_to_distribute > 0
                   /\ earning = last'.honest_identities
                   /\ Len(reputation_expiry') = Len(KeptPackets) + 1
                   /\ reputation_expiry'[Len(reputation_expiry')]
                          = [threshold |-> witnessing_acts + SumDict(last'.revealing) + 20000,
                             amounts |-> [i \in earning |-> last'.reputation_to_distribute]]
                   /\ \A i \in earning :
                          Count(NewDeltas, i, last'.epoch, last'.reputation_to_distribute, "gain") = 1
              ELSE /\ Len(reputation_expiry') = Len(KeptPackets)
                   /\ CountType(NewDeltas, "gain") = 0
                   /\ last'.reputation_to_distribute = 0 \/ last'.honest_identities = {}]_vars

\* C13 witness: an update returned that shared reputation between two identities and
\* queued, behind an older packet, one packet holding the share for both
C13_Witness ==
    /\ outcome = "returned"
    /\ last.reputation_earning_identities = <<"A", "B">>
    /\ Len(reputation_expiry) >= 2
    /\ reputation_expiry[Len(reputation_expiry)].amounts
           = [i \in {"A", "B"} |-> last.reputation_to_distribute]
    /\ reputation_expiry[Len(reputation_expiry)].threshold = witnessing_acts + 20000

\* C14: after any update returns, and after the phantom cycle of a gap update (seen
\* in the phantom row and in the engine when the update stopped right after it),
\* every identity in the identity map has reputation > 0
C14_NoZeroIdentity ==
    /\ (\/ outcome = "returned"
        \/ last.stage \in {"clean", "return"}
        \/ last.phantom /\ last.stage = "start")
           => \A i \in DOMAIN identities : identities[i] > 0
    /\ \A n \in 1..Len(db_trs) :
           \A k \in 1..Len(db_trs[n].reputations) : db_trs[n].reputations[k] > 0

\* C14 witness: an update returned that expired all the reputation of an identity,
\* which is no longer in the map
C14_Witness ==
    /\ outcome = "returned"
    /\ db_reputation # <<>>
    /\ \E i \in Identities :
           /\ i \notin DOMAIN identities
           /\ \E n \in 1..Len(db_reputation[Len(db_reputation)]) :
                  LET r == db_reputation[Len(db_reputation)][n]
                  IN r.type = "expire" /\ r.address = i /\ r.epoch = last.epoch
                         /\ r.reputation < 0

\* the thresholds of the queue never decrease from front to back
Ordered(queue) ==
    \A n \in 1..Len(queue) : \A k \in n..Len(queue) : queue[n].threshold <= queue[k].threshold

\* C15: in every reachable state the expiry queue is ordered by threshold, front to
\* back; so the expiry step, which stops at the first packet not yet due, leaves no
\* packet that was due at the witnessing_acts it ran with
C15_QueueOrdered ==
    /\ Ordered(reputation_expiry)
    /\ (last.phantom \/ last.stage \notin {"start", "filter"}) =>
           LET acts == IF last.stage \in {"clean", "return"}
                       THEN witnessing_acts - last.new_witnessing_acts
                       ELSE witnessing_acts
           IN \A n \in 1..Len(reputation_expiry) :
                  \/ reputation_expiry[n].threshold > acts
                  \/ /\ n = Len(reputation_expiry)
                     /\ last.stage \in {"clean", "return"}
                     /\ last.reputation_earning_identities # <<>>
                     /\ reputation_expiry[n].threshold = acts + last.new_witnessing_acts + 20000

\* C15 witness: an update returned that drained the due front packet and left an older
\* packet before the one it appended, with distinct thresholds
C15_Witness ==
    /\ outcome = "returned"
    /\ last.expired_reputation > 0
    /\ last.reputation_earning_identities # <<>>
    /\ Len(reputation_expiry) = 2
    /\ reputation_expiry[1].threshold < reputation_expiry[2].threshold
    /\ reputation_expiry[1].threshold > witnessing_acts - last.new_witnessing_acts

\* C16 (the claim as stated): after any update returns, the expiry queue holds no
\* packet whose identity-to-amount map is empty
C16_NoEmptyPacket ==
    outcome = "returned" =>
        \A n \in 1..Len(reputation_expiry) : reputation_expiry[n].amounts # EmptyDict

\* identity i holds reputation, all of it in packets that are due at the current
\* witnessing_acts
AllPacketsDue(i) ==
    /\ i \in DOMAIN identities
    /\ \A n \in 1..Len(KeptPackets) : i \notin DOMAIN KeptPackets[n].amounts

LieRecords(i) == Len(SelectSeq(NewDeltas, LAMBDA r : r.type = "lie" /\ r.address = i))

\* C17 (the claim as stated): an update that reports a lie for an identity whose
\* packets all expire in the expiry step of that update aborts on the assertion of
\* the penalise step
C17_AbortsWhenAllExpired ==
    [][(UpdateStep /\ \E i \in Identities : last'.liars[i] > 0 /\ AllPacketsDue(i))
           => outcome' = "AssertionError"]_vars

\* C17 (amended): no update aborts on the assertion of the penalise step; a liar whose
\* packets all expire in the same update is left without reputation and costs
\* nothing: still in the map at 0 it gets one (0, lie) delta, already cleaned from
\* the map by the phantom cycle it gets none; a liar that is not in the map gets none
C17_NoAbortWhenAllExpired ==
    [][UpdateStep =>
           /\ outcome' # "AssertionError"
           /\ PenaliseRan =>
                  \A i \in Identities :
                      /\ (last'.liars[i] > 0 /\ AllPacketsDue(i)) =>
                             /\ i \notin DOMAIN identities'
                             /\ InMapAtPenalise(i) <=> ~last'.phantom
                             /\ LieRecords(i) = (IF last'.phantom THEN 0 ELSE 1)
                             /\ ~last'.phantom => Count(NewDeltas, i, last'.epoch, 0, "lie") = 1
                      /\ (last'.liars[i] > 0 /\ i \notin DOMAIN identities) =>
                             /\ LieRecords(i) = 0
                             /\ i \notin DOMAIN identities']_vars

\* C17 witness: an update returned that expired all the reputation of an identity and
\* was told that this identity lied: it flushed the expire record and a lie record of 0
C17_Witness ==
    /\ outcome = "returned"
    /\ db_reputation # <<>>
    /\ \E i \in Identities :
           /\ last.liars[i] > 0
           /\ last.penalized_reputation = 0
           /\ i \notin DOMAIN identities
           /\ Count(db_reputation[Len(db_reputation)], i, last.epoch, 0, "lie") = 1
           /\ \E n \in 1..Len(db_reputation[Len(db_reputation)]) :
                  LET r == db_reputation[Len(db_reputation)][n]
                  IN r.type = "expire" /\ r.address = i /\ r.epoch = last.epoch
                         /\ r.reputation < 0

\* C19 (the claim as stated): every update - the first one after the engine is
\* constructed included - gets its row written: with a store that accepts every
\* write it returns, having inserted the identities it lacks an id for into the
\* address table, and its last row is keyed by its epoch and lists the id and the
\* reputation of each identity of the cleaned map at aligned positions
C19_RowAlwaysWritten ==
    [][UpdateStep =>
           /\ outcome' = "returned"
           /\ Len(RowsWritten) >= 1
           /\ LET row == RowsWritten[Len(RowsWritten)]
              IN /\ row.epoch = last'.epoch
                 /\ Len(row.addresses) = Len(row.reputations)
                 /\ Len(row.addresses) = Cardinality(DOMAIN identities')
                 /\ \A n \in 1..Len(row.addresses) :
                        /\ row.addresses[n] \in 1..Len(db_addresses')
                        /\ db_addresses'[row.addresses[n]] \in DOMAIN identities'
                        /\ row.reputations[n] = identities'[db_addresses'[row.addresses[n]]]
                 /\ \A i \in DOMAIN identities' :
                        RowReputation(row, db_addresses', i) = identities'[i]]_vars

\* C20 (the claim as stated): a get_trs call that finds a row with an id missing from
\* the id-to-address cache does not fail: it returns the identities of the row with
\* their reputation
C20_ReadAfterMiss ==
    [][\A e \in 0..MaxEpoch :
           (GetTrs(e) /\ TrsEpoch(e) # 0
                /\ \A n \in 1..Len(db_trs) : db_trs[n].epoch = TrsEpoch(e) => CacheMiss(db_trs[n]))
               => /\ got'.outcome = "returned"
                  /\ got'.epoch = TrsEpoch(e)]_vars

\* C18 (the claim as stated): once the engine restarted from the snapshot file has
\* been given again, in order, the updates made since that file was written, its
\* witnessing_acts, leftover_reputation, expiry queue, epoch and identity map are
\* those of the engine at the time of the crash
C18_RecoveryEquivalent ==
    (shadow.crashed /\ replay = <<>>) => Snapshot = shadow.engine


\* C21: address inserts are upserts on the address primary key: when another
\* component sharing the table (block indexer, balance list) inserted an address after
\* the engine's, or the balance list's, last read of the table and before its own
\* insert of that address, the insert is not refused for a primary-key conflict, and
\* every address of the table has one id
C21_UpsertNeverConflicts ==
    /\ outcome # "UniqueViolation"
    /\ balance_list.outcome # "UniqueViolation"
    /\ \A n, k \in 1..Len(db_addresses) : db_addresses[n] = db_addresses[k] => n = k

\* the batches of delta records the step flushed to the reputation table
NewBatches == SubSeq(db_reputation', Len(db_reputation) + 1, Len(db_reputation'))

\* C22: delta records are flushed and cleared per epoch: every batch an update that
\* returns has flushed holds only records of that update's epoch; no record of an
\* epoch is flushed after the row of that epoch was written (the row of a skipped
\* epoch is written before the update's flush); the delta buffer is empty when the
\* update returns
C22_FlushPerEpoch ==
    [][(UpdateStep /\ outcome' = "returned") =>
           /\ \A b \in 1..Len(NewBatches) : \A n \in 1..Len(NewBatches[b]) :
                  NewBatches[b][n].epoch = last'.epoch
           /\ \A k \in 1..Len(RowsWritten) :
                  RowsWritten[k].epoch # last'.epoch =>
                      \A b \in 1..Len(NewBatches) : \A n \in 1..Len(NewBatches[b]) :
                          NewBatches[b][n].epoch # RowsWritten[k].epoch
           /\ insert_reputation_differences' = <<>>]_vars

\* C23: snapshot round trip: the file persist_trs writes, read back by load_trs,
\* gives witnessing_acts, leftover_reputation, the expiry queue, epoch and the
\* identity map equal to those persisted, and an engine loaded from the file
\* persists a file identical to the one it was loaded from
C23_SnapshotRoundTrip ==
    [][/\ trs_file' # trs_file => LoadTrs(trs_file') = Snapshot
       /\ (shadow'.crashed /\ ~shadow.crashed) => DumpTrs' = trs_file]_vars

\* C23 witness: an engine loaded from a file that holds identities and packets
C23_Witness ==
    /\ shadow.crashed
    /\ outcome = "none"
    /\ trs_file.exists
    /\ Snapshot = LoadTrs(trs_file)
    /\ Cardinality(DOMAIN identities) = 2
    /\ Len(reputation_expiry) >= 2

\* the calculate_eligibilities call has run, on a dict of n identities or more
Calculated(n) == calculation.outcome # "none" /\ Len(calculation.identities) >= n

\* S, the sum of the reputations of the dict the call was made with
TotalReputation ==
    SumSeq([n \in 1..Len(calculation.identities) |-> calculation.identities[n][2]])

\* C24 (the claim as stated): for any non-empty identity map with positive
\* reputations the eligibilities sum to 1: the call returns, the trapezoid weights
\* sum exactly to the total reputation S, each eligibility is (w_i + 1) / (S + N),
\* and the numerators add up to the denominator
C24_SumsToOne ==
    Calculated(1) =>
        /\ calculation.outcome = "returned"
        /\ Len(calculation.weights) = Len(calculation.identities)
        /\ SumSeq(calculation.weights) = TotalReputation
        /\ \A n \in 1..Len(calculation.weights) :
               calculation.eligibilities[n] =
                   <<calculation.weights[n] + 1,
                     TotalReputation + Len(calculation.identities)>>
        /\ SumSeq([n \in 1..Len(calculation.eligibilities) |->
                      calculation.eligibilities[n][1]])
               = TotalReputation + Len(calculation.identities)

\* C25 (the claim as stated): for a map with exactly one identity, of reputation S,
\* the calculation completes with triangle [0] and weight S and returns the
\* eligibility (S + 1) / (S + 1)
C25_SingleIdentity ==
    (Calculated(1) /\ Len(calculation.identities) = 1) =>
        /\ calculation.outcome = "returned"
        /\ calculation.triangle = <<0>>
        /\ calculation.weights = <<TotalReputation>>
        /\ calculation.eligibilities = <<<<TotalReputation + 1, TotalReputation + 1>>>>

\* the position of the identity a in the dict the call was made with
Position(a) ==
    CHOOSE n \in 1..Len(calculation.identities) : calculation.identities[n][1] = a

\* twice the distance of t from the line m*i + k at rank i (from 0), in units of
\* 1 / (2N(N - 1)): k = 1.5 (S/N - r_min) and m = -k / (N - 1) make the line
\* 3 (S - N r_min) (N - 1 - i) / (2N(N - 1)), which is never negative
TwiceOffLine(t, i, N, S, r_min) ==
    IF t * 2 * N * (N - 1) >= 3 * (S - N * r_min) * (N - 1 - i)
    THEN 2 * (t * 2 * N * (N - 1) - 3 * (S - N * r_min) * (N - 1 - i))
    ELSE 2 * (3 * (S - N * r_min) * (N - 1 - i) - t * 2 * N * (N - 1))

C27_EligibilityBounds ==
    Calculated(1) =>
        /\ calculation.outcome = "returned"
        /\ Len(calculation.eligibilities) = Len(calculation.identities)
        /\ \A n \in 1..Len(calculation.eligibilities) :
               /\ calculation.eligibilities[n][1] > 0
               /\ calculation.eligibilities[n][1] <= calculation.eligibilities[n][2]

\* a step of the behaviour that is one call of clean
CleanStep == calls' = calls /\ address_ids' = address_ids /\ last' = NoLocals

\* C28: a call of clean removes exactly the identities whose reputation is 0, keeps
\* the reputation of every other identity and every other field of the engine and
\* of the store, and a second call on the result changes nothing
C28_CleanIdempotent ==
    [][CleanStep =>
          /\ DOMAIN identities' = {i \in DOMAIN identities : identities[i] # 0}
          /\ \A i \in DOMAIN identities' : identities'[i] = identities[i]
          /\ clean(identities') = identities'
          /\ UNCHANGED <<witnessing_acts, leftover_reputation, reputation_expiry, epoch,
                         insert_reputation_differences, address_ids, logger,
                         db_addresses, db_reputation, db_trs>>]_vars

\* clean has run after an update that stopped at the flush: an identity of the
\* buffered deltas is gone from the map, another one is kept
C28_Witness ==
    /\ last = NoLocals /\ outcome = "returned" /\ calls > 0
    /\ \E n \in 1..Len(insert_reputation_differences) :
           /\ insert_reputation_differences[n].reputation < 0
           /\ insert_reputation_differences[n].address \notin DOMAIN identities
    /\ \E i \in DOMAIN identities : identities[i] > 0

\* the update of the same pre-state with the same inputs by an engine that was given
\* a logger
WithLogger ==
    UpdateResult(last'.epoch, last'.honests, last'.errors, last'.liars, last'.revealing,
                 TRUE, "none")

\* C29: an update leaves the engine state and writes to the store what the same
\* update of the same pre-state leaves and writes when the engine has a logger
C29_LoggerIndependent ==
    [][UpdateStep =>
          /\ EngineState' = <<WithLogger.witnessing_acts, WithLogger.leftover_reputation,
                              WithLogger.reputation_expiry, WithLogger.epoch,
                              WithLogger.identities,
                              WithLogger.insert_reputation_differences>>
          /\ db_addresses' = WithLogger.db_addresses
          /\ db_reputation' = WithLogger.db_reputation
          /\ db_trs' = WithLogger.db_trs
          /\ (outcome' = "returned") = (WithLogger.error = "none")]_vars

\* C30: after every update that returns, the reputation held by the identities plus
\* the leftover equals the witnessing acts counted so far, capped at the issuance stop
C30_ReputationConserved ==
    outcome = "returned" =>
        SumDict(identities) + leftover_reputation
            = IF witnessing_acts < reputation_issuance_stop
              THEN witnessing_acts ELSE reputation_issuance_stop

\* a gap update has returned: its own expiry step expired nothing, liars were
\* penalised, the identities hold reputation, and the leftover exceeds what this
\* update issued and took from the liars, so it carries reputation from before
C30_Witness ==
    /\ outcome = "returned" /\ last.phantom
    /\ last.expired_reputation = 0 /\ last.penalized_reputation > 0
    /\ leftover_reputation > last.issued_reputation + last.penalized_reputation
    /\ SumDict(identities) > 0

\* the signed amounts of the delta records flushed for identity i, added up
JournalSum(i) ==
    LET records == SelectSeq(Flatten(db_reputation), LAMBDA r : r.address = i)
    IN SumSeq([n \in 1..Len(records) |-> records[n].reputation])

\* C31: after every update that returns, the delta records flushed for an identity
\* since the fresh engine add up to its reputation, 0 if it is not in the map
C31_JournalReplays ==
    outcome = "returned" =>
        \A i \in Identities : JournalSum(i) = Get(identities, i)

\* an update has returned and an identity that still holds reputation has gain, lie
\* and expire records in the flushed journal
C31_Witness ==
    /\ outcome = "returned"
    /\ \E i \in DOMAIN identities :
           /\ identities[i] > 0
           /\ \A type \in {"gain", "lie", "expire"} :
                  \E n \in 1..Len(Flatten(db_reputation)) :
                      /\ Flatten(db_reputation)[n].address = i
                      /\ Flatten(db_reputation)[n].type = type
                      /\ Flatten(db_reputation)[n].reputation # 0

\* C32: under the caller protocol no update ends in a fatal check of the expiry or
\* the penalise step (an identity of an expiring packet missing from the map, a
\* reputation driven below 0, a penalty the packets do not cover), and every
\* identity a queued packet names is in the identity map with at least the
\* reputation the packets hold for it
C32_FatalChecksSilent ==
    /\ outcome \notin {"AssertionError", "KeyError"}
    /\ \A n \in 1..Len(reputation_expiry) :
           \A i \in DOMAIN reputation_expiry[n].amounts :
               /\ i \in DOMAIN identities
               /\ identities[i] >= PacketSum(reputation_expiry, i)

\* an update has returned in which a packet expired and a liar was penalised, and
\* an identity penalised in an earlier update has had reputation expire in this one
C32_Witness ==
    /\ outcome = "returned"
    /\ last.expired_reputation > 0 /\ last.penalized_reputation > 0
    /\ \E i \in Identities :
           \E n, k \in 1..Len(Flatten(db_reputation)) :
               /\ Flatten(db_reputation)[n].address = i
               /\ Flatten(db_reputation)[n].type = "lie"
               /\ Flatten(db_reputation)[n].reputation < 0
               /\ Flatten(db_reputation)[n].epoch < last.epoch
               /\ Flatten(db_reputation)[k].address = i
               /\ Flatten(db_reputation)[k].type = "expire"
               /\ Flatten(db_reputation)[k].epoch = last.epoch

\* the amounts of the records of one type a step appends for identity i at epoch ep
StepSum(i, ep, type) ==
    LET records == SelectSeq(NewDeltas, LAMBDA r : r.address = i /\ r.epoch = ep
                                                    /\ r.type = type)
    IN SumSeq([n \in 1..Len(records) |-> records[n].reputation])

\* identity i is not in the map when the penalise step of the update runs: it was
\* not in the map before the update, or the phantom cycle of the update expired all
\* its reputation and cleaned it away
AbsentAtPenalise(i) ==
    \/ i \notin DOMAIN identities
    \/ /\ last'.phantom
       /\ identities[i] + StepSum(i, epoch + 1, "expire") = 0

\* the queue after the update without the packet the update appended
OldPackets ==
    IF last'.total_reputation_distributed > 0
    THEN SubSeq(reputation_expiry', 1, Len(reputation_expiry') - 1)
    ELSE reputation_expiry'

\* C33: a liar that is not in the identity map when the penalise step runs is
\* skipped: it gets no lie record and no reputation, no packet names it, the
\* penalised total is what the lie records of the other liars take, and if every
\* liar is absent the total is 0 and the packets kept are packets of the old queue,
\* unmodified
C33_AbsentLiarSkipped ==
    [][PenaliseRan =>
          /\ \A i \in Identities :
                 (last'.liar_identities[i] > 0 /\ AbsentAtPenalise(i)) =>
                     /\ \A n \in 1..Len(NewDeltas) :
                            ~(NewDeltas[n].address = i /\ NewDeltas[n].type = "lie")
                     /\ i \notin DOMAIN identities'
                     /\ \A n \in 1..Len(reputation_expiry') :
                            i \notin DOMAIN reputation_expiry'[n].amounts
          /\ last'.penalized_reputation
                 = 0 - SumSeq([n \in 1..Len(IdOrder) |->
                                  IF AbsentAtPenalise(IdOrder[n]) THEN 0
                                  ELSE StepSum(IdOrder[n], last'.epoch, "lie")])
          /\ (\A i \in Identities : last'.liar_identities[i] > 0 => AbsentAtPenalise(i)) =>
                 /\ last'.penalized_reputation = 0
                 /\ Len(OldPackets) <= Len(reputation_expiry)
                 /\ OldPackets = SubSeq(reputation_expiry,
                                         Len(reputation_expiry) - Len(OldPackets) + 1,
                                         Len(reputation_expiry))]_vars

\* an update has returned in which one liar was penalised and another liar, which
\* held reputation in an earlier epoch, was not in the map and got no lie record
C33_Witness ==
    /\ outcome = "returned"
    /\ last.penalized_reputation > 0
    /\ \E i \in Identities :
           /\ last.liar_identities[i] > 0
           /\ i \notin DOMAIN identities
           /\ \E n \in 1..Len(Flatten(db_reputation)) :
                  Flatten(db_reputation)[n].address = i
           /\ \A n \in 1..Len(Flatten(db_reputation)) :
                  ~(/\ Flatten(db_reputation)[n].address = i
                    /\ Flatten(db_reputation)[n].type = "lie"
                    /\ Flatten(db_reputation)[n].epoch = last.epoch)

\* C34: in a calculation that returned for two identities or more, an identity
\* with strictly higher reputation has an eligibility that is not lower
C34_EligibilityMonotone ==
    (calculation.outcome = "returned" /\ Len(calculation.identities) >= 2) =>
        \A n, k \in 1..Len(calculation.ranked) :
            calculation.ranked[n][2] > calculation.ranked[k][2] =>
                calculation.eligibilities[n][1] * calculation.eligibilities[k][2]
                    >= calculation.eligibilities[k][1] * calculation.eligibilities[n][2]

\* the calculation returned for three identities of three different reputations
\* with extra units handed out, and the eligibilities decrease with the rank
C34_Witness ==
    /\ calculation.outcome = "returned"
    /\ Len(calculation.ranked) = 3
    /\ calculation.ranked[1][2] > calculation.ranked[2][2]
    /\ calculation.ranked[2][2] > calculation.ranked[3][2]
    /\ calculation.eligibilities[1][1] > calculation.eligibilities[2][1]
    /\ calculation.eligibilities[2][1] > calculation.eligibilities[3][1]
    /\ (TotalReputation - SumSeq(calculation.triangle)) % 3 # 0

\* C35 (the claim as stated): no two rows handed to the trs table carry the same
\* epoch key, over updates with strictly increasing epochs and their phantom rows,
\* and over a crash, a restart from the last snapshot file and the re-issue of the
\* updates made since that file was written
C35_SnapshotEpochsUnique ==
    \A n, k \in 1..Len(db_trs) : db_trs[n].epoch = db_trs[k].epoch => n = k

\* the hash h is buffered for insertion or stored in the hashes table
Sighted(w, h) ==
    \/ \E n \in 1..Len(w.insert_hashes) : w.insert_hashes[n].hash = h
    \/ \E n \in 1..Len(w.db_hashes) : w.db_hashes[n].hash = h

\* how often the hash h is buffered for insertion
TimesBuffered(w, h) == Len(SelectSeq(w.insert_hashes, LAMBDA r : r.hash = h))

\* the table of the items an insert method handles
TableOf(method) ==
    CASE method = "insert_block" -> "blocks"
      [] method = "insert_mint_txn" -> "mint_txns"
      [] method = "insert_value_transfer_txn" -> "value_transfer_txns"
      [] method = "insert_data_request_txn" -> "data_request_txns"
      [] method = "insert_commit_txn" -> "commit_txns"
      [] method = "insert_reveal_txn" -> "reveal_txns"
      [] method = "insert_tally_txn" -> "tally_txns"

\* the buffers after the repeated sighting of an item by the call c, given the
\* buffers before it
RepeatedSighting(v, w, c) ==
    /\ w.insert = v.insert
    /\ TimesBuffered(w, c.hash) = TimesBuffered(v, c.hash)
    /\ c.method # "insert_data_request_txn" => w.insert_hashes = v.insert_hashes
    /\ CASE c.method = "insert_block" ->
                /\ w.update_hashes = v.update_hashes
                /\ w.update = [v.update EXCEPT !["blocks"] =
                                   Append(@, [hash |-> c.hash, confirmed |-> c.confirmed])]
         [] c.method \in {"insert_mint_txn", "insert_commit_txn"} ->
                /\ w.update_hashes = v.update_hashes
                /\ w.update = v.update
         [] OTHER ->
                /\ w.update_hashes = Append(v.update_hashes, [hash |-> c.hash, epoch |-> c.epoch])
                /\ w.update = [v.update EXCEPT ![TableOf(c.method)] =
                                   Append(@, [hash |-> c.hash, epoch |-> c.epoch])]

\* C36: after every call no hash is buffered for insertion twice and no stored hash
\* is buffered for insertion; a call that sights again an item whose hash is
\* buffered or stored buffers no insert: for a block it buffers the update of the
\* confirmed status, for a value transfer, data request, reveal or tally the update
\* of the epoch of the hash and of the row, for a mint or commit nothing
C36_HashBufferedOnce ==
    [][/\ \A n, k \in 1..Len(witnet_database'.insert_hashes) :
              witnet_database'.insert_hashes[n].hash = witnet_database'.insert_hashes[k].hash
                  => n = k
       /\ \A n \in 1..Len(witnet_database'.insert_hashes) :
              \A k \in 1..Len(witnet_database'.db_hashes) :
                  witnet_database'.insert_hashes[n].hash # witnet_database'.db_hashes[k].hash
       /\ (/\ witnet_database'.call.method # "finalize"
           /\ Sighted(witnet_database, witnet_database'.call.hash)) =>
              RepeatedSighting(witnet_database, witnet_database', witnet_database'.call)
      ]_vars

\* a data request was inserted and finalized, sighted again, and a second data
\* request with the same RAD and DRO bytes was sighted: one hash is buffered for
\* insertion and one update
C36_Witness ==
    /\ witnet_database.call.method = "insert_data_request_txn"
    /\ Len(witnet_database.db_hashes) = 3
    /\ Len(witnet_database.insert_hashes) = 1
    /\ witnet_database.insert_hashes[1].type = "data_request_txn"
    /\ Len(witnet_database.update["data_request_txns"]) = 1
    /\ Len(witnet_database.update_hashes) = 1

\* the statements of the last finalize of one kind
StatementsOf(w, op) == SelectSeq(w.statements, LAMBDA st : st.op = op)

\* the buffers of w that hold rows, as the statements that write them
Buffered(w) ==
    {[op |-> "INSERT", table |-> "hashes", rows |-> w.insert_hashes],
     [op |-> "UPDATE", table |-> "hashes", rows |-> w.update_hashes]}
    \cup {[op |-> "INSERT", table |-> t, rows |-> w.insert[t]] : t \in DOMAIN w.insert}
    \cup {[op |-> "UPDATE", table |-> t, rows |-> w.update[t]] : t \in DOMAIN w.update}

\* the row stored for the hash of the update row r carries the columns of r
Applied(stored, r) ==
    \E n \in 1..Len(stored) :
        /\ stored[n].hash = r.hash
        /\ \A f \in DOMAIN r : stored[n][f] = r[f]

\* C37: a finalize executes one statement for every buffer that holds rows, with
\* the rows of the buffer, the hashes first and every insert before every update,
\* and leaves all buffers empty; every row an update names is then stored, also
\* when the same batch inserted it, and carries the columns of a buffered update;
\* a finalize that follows a finalize writes nothing
C37_InsertsBeforeUpdates ==
    [][witnet_database'.call.method = "finalize" =>
          LET v == witnet_database
              w == witnet_database'
              n_ins == Len(StatementsOf(w, "INSERT"))
          IN /\ {w.statements[n] : n \in 1..Len(w.statements)}
                    = {st \in Buffered(v) : st.rows # <<>>}
             /\ Len(w.statements) = Cardinality({st \in Buffered(v) : st.rows # <<>>})
             /\ \A n \in 1..Len(w.statements) :
                    (w.statements[n].op = "INSERT") = (n <= n_ins)
             /\ v.insert_hashes # <<>> => w.statements[1].table = "hashes"
             /\ \A st \in Buffered(w) : st.rows = <<>>
             /\ \A t \in DOMAIN v.update :
                    \A n \in 1..Len(v.update[t]) :
                        \E k \in 1..Len(v.update[t]) :
                            /\ v.update[t][k].hash = v.update[t][n].hash
                            /\ Applied(w.db_rows[t], v.update[t][k])
             /\ v.call.method = "finalize" =>
                    /\ w.statements = <<>>
                    /\ w.db_hashes = v.db_hashes
                    /\ w.db_rows = v.db_rows]_vars

\* the last finalize inserted a value transfer and updated it in the same batch:
\* the stored row carries the epoch of the update, not the epoch of the insert
C37_Witness ==
    /\ witnet_database.call.method = "finalize"
    /\ \E n, k \in 1..Len(witnet_database.statements) :
           /\ n < k
           /\ witnet_database.statements[n]
                  = [op |-> "INSERT", table |-> "value_transfer_txns",
                     rows |-> <<[hash |-> <<"value_transfer", 1>>, epoch |-> 1]>>]
           /\ witnet_database.statements[k]
                  = [op |-> "UPDATE", table |-> "value_transfer_txns",
                     rows |-> <<[hash |-> <<"value_transfer", 1>>, epoch |-> 2]>>]
    /\ witnet_database.db_rows["value_transfer_txns"]
           = <<[hash |-> <<"value_transfer", 1>>, epoch |-> 2]>>

\* C38 (the claim as stated): build calls the node again at most node_retries
\* times after the first failure, for every node_retries from 0 on: the node has
\* been asked at most node_retries + 1 times, a build that returned False was
\* failed by every answer, and a build that returned True holds the lists of the
\* last answer
C38_RetriesBounded ==
    /\ build.node_calls <= build.node_retries + 1
    /\ build.returned = "False" =>
           /\ build.address_balances.error
           /\ build.attempts = build.node_retries
    /\ build.returned = "True" =>
           /\ ~build.address_balances.error
           /\ Len(build.balances) = Len(build.addresses)
           /\ \A n \in 1..Len(build.balances) :
                  /\ build.balances[n][2] >= 1
                  /\ \E k \in 1..Len(build.address_balances.result) :
                         /\ build.address_balances.result[k][1] = build.balances[n][1]
                         /\ build.address_balances.result[k][2] \div 2 = build.balances[n][2]
                  /\ n > 1 => build.balances[n - 1][2] >= build.balances[n][2]

\* C38, for a positive node_retries: the retries are bounded as stated
C38_PositiveRetriesBounded == build.node_retries >= 1 => C38_RetriesBounded

\* C39 (the claim as stated): after add_missing_reveals every commit has a reveal
\* with its address, and the reveals added are placeholders ('No reveal', no
\* success) of commits that had no reveal
C39_EveryCommitHasReveal ==
    report.outcome = "returned" =>
        /\ \A n \in 1..Len(report.commits) :
               \E k \in 1..Len(report.reveals) :
                   report.reveals[k].txn_address = report.commits[n].txn_address
        /\ \A k \in 1..Len(report.reveals) :
               \/ report.reveals[k].reveal # "No reveal"
               \/ /\ ~report.reveals[k].success
                  /\ \E n \in 1..Len(report.commits) :
                         report.reveals[k].txn_address = report.commits[n].txn_address

\* C39, for a data request with at least one reveal
C39_WithSomeReveal ==
    (\E k \in 1..Len(report.reveals) : report.reveals[k].reveal # "No reveal")
        => C39_EveryCommitHasReveal

====
